---- MODULE Spec2Model ----
(***************************************************************************)
(* Feature-restriction service: the Redis stream consumer pipeline         *)
(* (stream_consumer.py), the event handlers, the rules, the user store     *)
(* and the tripwire manager of the feature_restriction package.            *)
(*                                                                         *)
(* Redis is modelled by its data: the user database (one whole-object      *)
(* value per user id), the tripwire database (hash tripwire:states and one *)
(* hash tripwire:affected_users:<rule> per rule) and the stream            *)
(* event_stream with consumer group group1 (entries not yet delivered to   *)
(* the group, and the group's pending entries list).                       *)
(***************************************************************************)
EXTENDS Integers, Sequences, FiniteSets, TLC

\* ------------------------------------------------------------------ bounds
MaxPosts == 3
MaxTime == 301
MaxDirect == 1
MaxCards == 4
MaxFlags == 2
MaxSpend == 10
MaxChargebacks == 2
MaxStops == 1

\* ------------------------------------------------------- program constants
time_window == 300
ThresholdNum == 5
ThresholdDen == 100
ReadCount == 10

\* ------------------------------------------------------------- value sets
NoVal == "__none__"

UserIds == {"u1", "u2"}
TripUserOrder == <<"u1", "u2", "u3", "u4", "u5">>
TripUserIds == { TripUserOrder[i] : i \in 1..Len(TripUserOrder) }
DirectUserIds == {"u3"}
CardIds == {"c1", "c2", "c3"}
ZipCodes == {"z1", "z2", "z3"}
ChargebackAmounts == {1, 2}
PurchaseAmounts == {10}
TickSteps == {150}
LongTickSteps == {301}
TotalUsersInputs == {0, 20, 100}
DirectTotalUsersInputs == {20, 100}

RuleNames == {"unique_zip_code_rule", "scam_message_rule", "chargeback_ratio_rule"}
HandledEventNames ==
  {"credit_card_added", "scam_message_flagged", "chargeback_occurred", "purchase_made"}
UnknownEventName == "account_closed"
Workers == {"consumer1"}

\* The pairs (card_id, zip_code) posted with credit_card_added events: three
\* cards with three zips, a repeated card_id with another zip, and an event
\* without card_id.
CardProps ==
  { <<"c1", "z1">>, <<"c2", "z2">>, <<"c3", "z3">>, <<"c1", "z2">>, <<NoVal, "z1">> }

Min(a, b) == IF a <= b THEN a ELSE b

\* The card ids and zip codes of direct handler calls, in the order they are
\* first used (ids and zip codes are only compared for equality).
RuleCardOrder == <<"c1", "c2", "c3", "c4", "c5", "c6">>
RuleZipOrder == <<"z1", "z2", "z3", "z4", "z5", "z6">>
RuleTotalUsersInputs == {20}

\* The amounts of direct handler calls; the handlers take any number, also a
\* negative one.
DirectChargebackAmounts == {1, 2, -2}
DirectPurchaseAmounts == {10, -10}

\* ------------------------------------------------------------ data model
\* models.UserData: the default aggregate of a user id.
UserData(uid) ==
  [ user_id |-> uid,
    scam_message_flags |-> 0,
    credit_cards |-> [c \in {} |-> NoVal],
    total_credit_cards |-> 0,
    unique_zip_codes |-> {},
    total_spend |-> 0,
    total_chargebacks |-> 0,
    access_flags |-> [can_message |-> TRUE, can_purchase |-> TRUE] ]

\* models.Event as posted: a name and the event_properties mapping (a function
\* whose domain is the set of keys present).
CardEvent(u, cz) ==
  [ name |-> "credit_card_added",
    event_properties |->
      IF cz[1] = NoVal
        THEN [k \in {"user_id", "zip_code"} |-> IF k = "user_id" THEN u ELSE cz[2]]
        ELSE [k \in {"user_id", "card_id", "zip_code"} |->
                IF k = "user_id" THEN u ELSE IF k = "card_id" THEN cz[1] ELSE cz[2]] ]

PlainEvent(n, u) == [name |-> n, event_properties |-> [k \in {"user_id"} |-> u]]

AmountEvent(n, u, a) ==
  [ name |-> n,
    event_properties |-> [k \in {"user_id", "amount"} |-> IF k = "user_id" THEN u ELSE a] ]

\* The events a client posts to POST /event: every kind of event for the
\* first user, and a scam report for the second.
PostableEvents ==
  { CardEvent("u1", cz) : cz \in CardProps }
    \cup { PlainEvent(n, "u1") :
             n \in {"scam_message_flagged", "chargeback_occurred", UnknownEventName} }
    \cup { AmountEvent("chargeback_occurred", "u1", a) : a \in ChargebackAmounts }
    \cup { AmountEvent("purchase_made", "u1", a) : a \in PurchaseAmounts }
    \cup { PlainEvent("scam_message_flagged", "u2") }

\* The posted events that can make a rule's predicate true, and one of a
\* name nothing is registered for.
RuleEvents ==
  { CardEvent("u1", cz) : cz \in {<<"c1", "z1">>, <<"c2", "z2">>, <<"c3", "z3">>} }
    \cup { PlainEvent("scam_message_flagged", u) : u \in UserIds }
    \cup { AmountEvent("purchase_made", "u1", 10), AmountEvent("chargeback_occurred", "u1", 2),
           PlainEvent(UnknownEventName, "u1") }

\* json.dumps / json.loads of event_properties: the stream field holds the
\* serialized form, which only json_loads opens.
json_dumps(props) == [json |-> props]
json_loads(s) == s.json

\* The fields of the entry the consumer adds when the stream does not exist.
InitFields == [message |-> "init"]

\* ------------------------------------------------------- tripwire manager
\* RedisTripwireManager.is_rule_disabled_via_tripwire: hget(...) == "1".
is_rule_disabled_via_tripwire(states, rule_name) ==
  rule_name \in DOMAIN states /\ states[rule_name] = "1"

\* Mutant: an entry exactly time_window old is not expired.
expired_users_Strict(hash, current_time) ==
  { uid \in DOMAIN hash : hash[uid] < current_time - time_window }

\* The expired entries of one affected-users hash at current_time.
expired_users(hash, current_time) ==
  { uid \in DOMAIN hash : hash[uid] <= current_time - time_window }

\* hdel of the expired users, then hset of the current user.
AffectedAfterApply(hash, user_id, current_time) ==
  [ uid \in (DOMAIN hash \ expired_users(hash, current_time)) \cup {user_id} |->
      IF uid = user_id THEN current_time ELSE hash[uid] ]

\* Mutant: total_users = 0 is not set apart (0 >= 0 disables).
PercentageAtThreshold_NoZeroGuard(affected_count, total_users) ==
  affected_count * ThresholdDen >= ThresholdNum * total_users

\* Mutant: the comparison with the threshold is strict.
PercentageAtThreshold_Strict(affected_count, total_users) ==
  total_users > 0 /\ affected_count * ThresholdDen > ThresholdNum * total_users

\* percentage >= threshold, with percentage = affected_count / total_users if
\* total_users > 0 else 0, and threshold = 0.05 = ThresholdNum / ThresholdDen.
PercentageAtThreshold(affected_count, total_users) ==
  total_users > 0 /\ affected_count * ThresholdDen >= ThresholdNum * total_users

\* The value hset into tripwire:states for the rule.
TripwireStateAfterApply(hash, user_id, current_time, total_users) ==
  IF PercentageAtThreshold(
       Cardinality(DOMAIN AffectedAfterApply(hash, user_id, current_time)), total_users)
    THEN "1"
    ELSE "0"

\* ------------------------------------------------------------------ rules
RuleFlag(rule_name) ==
  IF rule_name = "scam_message_rule" THEN "can_message" ELSE "can_purchase"

\* Mutant: the scam rule fires from the third flag on.
evaluate_rule_ScamAtThree(rule_name, user) ==
  CASE rule_name = "unique_zip_code_rule" ->
         IF user.total_credit_cards <= 2
           THEN FALSE
           ELSE 4 * Cardinality(user.unique_zip_codes) > 3 * user.total_credit_cards
    [] rule_name = "scam_message_rule" -> user.scam_message_flags >= 3
    [] rule_name = "chargeback_ratio_rule" ->
         IF user.total_spend = 0
           THEN FALSE
           ELSE IF user.total_spend > 0
             THEN 10 * user.total_chargebacks > user.total_spend
             ELSE 10 * user.total_chargebacks < user.total_spend

\* Mutant: the zip code ratio is compared with >=.
evaluate_rule_ZipNotStrict(rule_name, user) ==
  CASE rule_name = "unique_zip_code_rule" ->
         IF user.total_credit_cards <= 2
           THEN FALSE
           ELSE 4 * Cardinality(user.unique_zip_codes) >= 3 * user.total_credit_cards
    [] rule_name = "scam_message_rule" -> user.scam_message_flags >= 2
    [] rule_name = "chargeback_ratio_rule" ->
         IF user.total_spend = 0
           THEN FALSE
           ELSE IF user.total_spend > 0
             THEN 10 * user.total_chargebacks > user.total_spend
             ELSE 10 * user.total_chargebacks < user.total_spend

\* BaseRule.evaluate_rule of the three rules. The ratios are compared as
\* integers: cards > 0 gives zips / cards > 0.75 iff 4 * zips > 3 * cards;
\* chargebacks / spend > 0.10 iff 10 * chargebacks > spend for spend > 0 and
\* iff 10 * chargebacks < spend for spend < 0.
evaluate_rule(rule_name, user) ==
  CASE rule_name = "unique_zip_code_rule" ->
         IF user.total_credit_cards <= 2
           THEN FALSE
           ELSE 4 * Cardinality(user.unique_zip_codes) > 3 * user.total_credit_cards
    [] rule_name = "scam_message_rule" -> user.scam_message_flags >= 2
    [] rule_name = "chargeback_ratio_rule" ->
         IF user.total_spend = 0
           THEN FALSE
           ELSE IF user.total_spend > 0
             THEN 10 * user.total_chargebacks > user.total_spend
             ELSE 10 * user.total_chargebacks < user.total_spend

\* Mutant: a rule that fires takes both permissions away.
apply_rule_BothFlags(rule_name, user) ==
  [user EXCEPT !.access_flags = [can_message |-> FALSE, can_purchase |-> FALSE]]

\* apply_rule of the three rules: the rule's flag is set to False.
apply_rule(rule_name, user) ==
  [user EXCEPT !.access_flags[RuleFlag(rule_name)] = FALSE]

\* --------------------------------------------------------------- registry
\* EventHandlerRegistry: the names with a registered handler and the rules
\* mapped to each event name (get_rules_for_event, [] for an unknown name).
HasHandler(name) == name \in HandledEventNames

\* Mutant: purchase_made is registered with chargeback_ratio_rule.
get_rules_for_event_PurchaseRunsChargeback(name) ==
  CASE name = "credit_card_added" -> <<"unique_zip_code_rule">>
    [] name = "scam_message_flagged" -> <<"scam_message_rule">>
    [] name \in {"chargeback_occurred", "purchase_made"} -> <<"chargeback_ratio_rule">>
    [] OTHER -> <<>>

get_rules_for_event(name) ==
  CASE name = "credit_card_added" -> <<"unique_zip_code_rule">>
    [] name = "scam_message_flagged" -> <<"scam_message_rule">>
    [] name = "chargeback_occurred" -> <<"chargeback_ratio_rule">>
    [] OTHER -> <<>>

\* --------------------------------------------------------- event handlers
\* The handler raises ValueError: a required property is missing.
HandlerRaisesValueError(event) ==
  LET keys == DOMAIN event.event_properties IN
  CASE event.name = "credit_card_added" -> ~({"card_id", "zip_code"} \subseteq keys)
    [] event.name \in {"chargeback_occurred", "purchase_made"} -> "amount" \notin keys
    [] OTHER -> FALSE

\* Mutant: credit_card_added counts the card without looking for its card_id.
handle_CountsEveryCard(event, user) ==
  LET p == event.event_properties IN
  CASE event.name = "credit_card_added" ->
         [ user EXCEPT
             !.credit_cards =
               [c \in DOMAIN user.credit_cards \cup {p["card_id"]} |->
                  IF c \in DOMAIN user.credit_cards THEN user.credit_cards[c]
                  ELSE p["zip_code"]],
             !.total_credit_cards = @ + 1,
             !.unique_zip_codes = @ \cup {p["zip_code"]} ]
    [] event.name = "scam_message_flagged" ->
         [user EXCEPT !.scam_message_flags = @ + 1]
    [] event.name = "chargeback_occurred" ->
         [user EXCEPT !.total_chargebacks = @ + p["amount"]]
    [] event.name = "purchase_made" ->
         [user EXCEPT !.total_spend = @ + p["amount"]]

\* Mutant: credit_card_added records the zip code of a card_id it already
\* holds.
handle_ZipOfKnownCard(event, user) ==
  LET p == event.event_properties IN
  CASE event.name = "credit_card_added" ->
         IF p["card_id"] \notin DOMAIN user.credit_cards
           THEN [ user EXCEPT
                    !.credit_cards =
                      [c \in DOMAIN user.credit_cards \cup {p["card_id"]} |->
                         IF c = p["card_id"] THEN p["zip_code"] ELSE user.credit_cards[c]],
                    !.total_credit_cards = @ + 1,
                    !.unique_zip_codes = @ \cup {p["zip_code"]} ]
           ELSE [user EXCEPT !.unique_zip_codes = @ \cup {p["zip_code"]}]
    [] event.name = "scam_message_flagged" ->
         [user EXCEPT !.scam_message_flags = @ + 1]
    [] event.name = "chargeback_occurred" ->
         [user EXCEPT !.total_chargebacks = @ + p["amount"]]
    [] event.name = "purchase_made" ->
         [user EXCEPT !.total_spend = @ + p["amount"]]

\* Mutant: a scam report marks the user once, further reports add nothing.
handle_ScamFlagOnce(event, user) ==
  LET p == event.event_properties IN
  CASE event.name = "credit_card_added" ->
         IF p["card_id"] \notin DOMAIN user.credit_cards
           THEN [ user EXCEPT
                    !.credit_cards =
                      [c \in DOMAIN user.credit_cards \cup {p["card_id"]} |->
                         IF c = p["card_id"] THEN p["zip_code"] ELSE user.credit_cards[c]],
                    !.total_credit_cards = @ + 1,
                    !.unique_zip_codes = @ \cup {p["zip_code"]} ]
           ELSE user
    [] event.name = "scam_message_flagged" ->
         [user EXCEPT !.scam_message_flags = IF @ = 0 THEN 1 ELSE @]
    [] event.name = "chargeback_occurred" ->
         [user EXCEPT !.total_chargebacks = @ + p["amount"]]
    [] event.name = "purchase_made" ->
         [user EXCEPT !.total_spend = @ + p["amount"]]

\* The aggregate as the handler leaves it in memory (and then saves it).
handle(event, user) ==
  LET p == event.event_properties IN
  CASE event.name = "credit_card_added" ->
         IF p["card_id"] \notin DOMAIN user.credit_cards
           THEN [ user EXCEPT
                    !.credit_cards =
                      [c \in DOMAIN user.credit_cards \cup {p["card_id"]} |->
                         IF c = p["card_id"] THEN p["zip_code"] ELSE user.credit_cards[c]],
                    !.total_credit_cards = @ + 1,
                    !.unique_zip_codes = @ \cup {p["zip_code"]} ]
           ELSE user
    [] event.name = "scam_message_flagged" ->
         [user EXCEPT !.scam_message_flags = @ + 1]
    [] event.name = "chargeback_occurred" ->
         [user EXCEPT !.total_chargebacks = @ + p["amount"]]
    [] event.name = "purchase_made" ->
         [user EXCEPT !.total_spend = @ + p["amount"]]

\* ------------------------------------------------------------ user store
\* RedisUserManager.save_user: set(user_id, json) replaces the whole object.
save_user(db, user) ==
  [uid \in DOMAIN db \cup {user.user_id} |-> IF uid = user.user_id THEN user ELSE db[uid]]

\* RedisUserManager.get_user raises KeyError when the key holds no value.
UserExists(db, uid) == uid \in DOMAIN db

\* Mutant: get_user rebuilds the aggregate without its stored access flags.
get_user_FreshFlags(db, uid) ==
  [db[uid] EXCEPT !.access_flags = UserData(uid).access_flags]

\* RedisUserManager.get_user for a stored user: the aggregate parsed back
\* from its JSON value.
get_user(db, uid) == db[uid]

\* Mutant: get_user_count answers with the number of stored keys also when
\* the keys("*") call raised.
get_user_count_IgnoresError(db, keys_raises) == Cardinality(DOMAIN db)

\* RedisUserManager.get_user_count: len(keys("*")); any exception of the
\* backing store is logged and 0 is returned.
get_user_count(db, keys_raises) ==
  IF keys_raises THEN 0 ELSE Cardinality(DOMAIN db)

\* ------------------------------------------------------------------ state
VARIABLES
  users_db,          \* user database: user_id -> stored aggregate
  tripwire_states,   \* hash tripwire:states: rule_name -> "0" | "1"
  affected_users,    \* rule_name -> hash tripwire:affected_users:<rule_name>
  now,               \* time.time()
  stream,            \* entries of event_stream not yet delivered to group1
  next_id,           \* the id the stream assigns to the next entry
  pending,           \* ids in the pending entries list of group1
  pc,                \* per worker: where it is in start()
  batch,             \* per worker: the entries of the last xreadgroup still to do
  result,            \* per worker: how the last call the worker made ended
                     \* (process_event for the current entry, a failed
                     \* xreadgroup, xgroup_create at startup)
  processed,         \* history: ids of the entries process_event was called for
  deliveries,        \* history: per entry id, the number of times xreadgroup returned it
  ack_count,         \* history: per entry id, the number of xack calls made
  posts,             \* history: number of events appended by the publisher
  direct_calls,      \* history: number of direct apply_tripwire_if_needed calls
  last_apply,        \* history: per rule, affected_count and total_users of the
                     \* most recent apply_tripwire_if_needed
  rule_call,         \* history: the rule, the return value and the number of
                     \* save_user calls of the most recent direct process_rule
  response,          \* history: endpoint, status code and body of the most recent
                     \* HTTP response of the API
  stop_calls,        \* history: number of stop() calls made on the consumer
  local,             \* per worker: the user_data object process_event holds
  group_exists,      \* the consumer group exists on the stream
  count_call         \* history: whether the most recent get_user_count call met
                     \* a backing-store error, and what it returned

vars ==
  << users_db, tripwire_states, affected_users, now, stream, next_id, pending, pc,
     batch, result, processed, deliveries, ack_count, posts, direct_calls, last_apply,
     rule_call, response, stop_calls, local, group_exists, count_call >>

tripVars == <<tripwire_states, affected_users, last_apply>>
streamVars == <<stream, next_id, pending>>
workerVars == <<pc, batch, result>>
historyVars == <<processed, deliveries, ack_count, posts, direct_calls, rule_call>>
auxVars == <<response, stop_calls, local, group_exists, count_call>>

EntryIds == 1..(MaxPosts + 1)

\* get_user_count was not called yet.
NoCount == [raised |-> FALSE, returned |-> 0]

\* No HTTP request was answered yet.
NoResponse ==
  [endpoint |-> NoVal, request |-> [none |-> NoVal], status |-> 0, body |-> [none |-> NoVal]]

\* State after RedisStreamConsumer.__init__ in the __main__ block: the three
\* databases were flushed, so the stream did not exist and got its init entry.
Init ==
  /\ users_db = [uid \in {} |-> UserData(uid)]
  /\ tripwire_states = [r \in {} |-> "0"]
  /\ affected_users = [r \in RuleNames |-> [uid \in {} |-> 0]]
  /\ now = 0
  /\ stream = << [id |-> 1, fields |-> InitFields] >>
  /\ next_id = 2
  /\ pending = {}
  /\ pc = [w \in Workers |-> "read"]
  /\ batch = [w \in Workers |-> <<>>]
  /\ result = [w \in Workers |-> "none"]
  /\ processed = {}
  /\ deliveries = [i \in EntryIds |-> 0]
  /\ ack_count = [i \in EntryIds |-> 0]
  /\ posts = 0
  /\ direct_calls = 0
  /\ last_apply = [r \in {} |-> [affected_count |-> 0, total_users |-> 0]]
  /\ rule_call = [rule |-> NoVal, returned |-> NoVal, saves |-> 0]
  /\ response = NoResponse
  /\ stop_calls = 0
  /\ local = [w \in DOMAIN pc |-> NoVal]
  /\ group_exists = TRUE
  /\ count_call = NoCount

\* --------------------------------------------------------------- publisher
\* EventPublisher.add_event_to_stream for an event that passes validation.
Post(event) ==
  /\ posts < MaxPosts
  /\ event.name # ""
  /\ DOMAIN event.event_properties # {}
  /\ "user_id" \in DOMAIN event.event_properties
  /\ stream' =
       Append(stream,
              [ id |-> next_id,
                fields |-> [ name |-> event.name,
                             event_properties |-> json_dumps(event.event_properties) ] ])
  /\ next_id' = next_id + 1
  /\ posts' = posts + 1
  /\ UNCHANGED <<users_db, tripVars, now, pending, workerVars, processed, deliveries,
                 ack_count, direct_calls,
                 rule_call, auxVars>>

\* ---------------------------------------------------------------- consumer
\* process_event cannot build the event or read its user_id (KeyError).
EntryUnreadable(fields) ==
  \/ ~({"name", "event_properties"} \subseteq DOMAIN fields)
  \/ "user_id" \notin DOMAIN json_loads(fields.event_properties)

EventOf(fields) ==
  [name |-> fields.name, event_properties |-> json_loads(fields.event_properties)]

\* The backing-store calls of process_event that may raise a connection
\* error: get_user, the save of create_user, the save of the handler, the
\* hget of process_rule and the save of process_rule.
Faults == {"none", "get_user", "create_user", "handler_save", "rule_check", "rule_save"}

\* Mutant: process_rule does not ask the tripwire.
RuleApplies_IgnoringTripwire(states, rule_name, user) == evaluate_rule(rule_name, user)

\* BaseRule.process_rule returns True: the rule is enabled and its predicate
\* holds of the aggregate in memory.
RuleApplies(states, rule_name, user) ==
  /\ ~is_rule_disabled_via_tripwire(states, rule_name)
  /\ evaluate_rule(rule_name, user)

\* process_event, STEP 2 and STEP 3, after the handler saved `user` into db:
\* process_rule for the rule mapped to the event name (each name maps to at
\* most one rule). When process_rule returns True the consumer calls
\* apply_tripwire_if_needed(rule.name, user_id); the method requires a third
\* argument total_users, so the call raises TypeError before the method body
\* runs and the except clause of process_event catches it: the tripwire
\* database is not touched.
process_rules(db, states, event, user, fault) ==
  LET rule_names == get_rules_for_event(event.name) IN
  IF rule_names = <<>>
    THEN [db |-> db, result |-> "ok"]
    ELSE IF fault = "rule_check"
      THEN [db |-> db, result |-> "transient"]
      ELSE IF ~RuleApplies(states, rule_names[1], user)
        THEN [db |-> db, result |-> "ok"]
        ELSE IF fault = "rule_save"
          THEN [db |-> db, result |-> "transient"]
          ELSE [ db |-> save_user(db, apply_rule(rule_names[1], user)),
                 result |-> "tripwire_call_error" ]

\* Mutant: a handler counts the event and saves the user before it looks for
\* the required properties.
process_handler_CountsBeforeValidating(db, states, event, user, fault) ==
  IF ~HasHandler(event.name)
    THEN process_rules(db, states, event, user, fault)
    ELSE IF HandlerRaisesValueError(event)
      THEN [ db |-> save_user(db, [user EXCEPT !.total_credit_cards = @ + 1]),
             result |-> "bad_properties" ]
      ELSE IF fault = "handler_save"
        THEN [db |-> db, result |-> "transient"]
        ELSE process_rules(save_user(db, handle(event, user)), states, event,
                           handle(event, user), fault)

\* process_event, STEP 1, for the aggregate `user` read from (or created in)
\* db: the handler of the event name, if one is registered, then the rules.
process_handler(db, states, event, user, fault) ==
  IF ~HasHandler(event.name)
    THEN process_rules(db, states, event, user, fault)
    ELSE IF HandlerRaisesValueError(event)
      THEN [db |-> db, result |-> "bad_properties"]
      ELSE IF fault = "handler_save"
        THEN [db |-> db, result |-> "transient"]
        ELSE process_rules(save_user(db, handle(event, user)), states, event,
                           handle(event, user), fault)

\* Mutant: process_event gives up on an event whose user is not stored.
process_event_DropsUnknownUser(db, states, fields, fault) ==
  IF EntryUnreadable(fields)
    THEN [db |-> db, result |-> "bad_entry"]
    ELSE
      LET event == EventOf(fields)
          uid == event.event_properties["user_id"]
      IN
        IF fault = "get_user"
          THEN [db |-> db, result |-> "transient"]
          ELSE IF UserExists(db, uid)
            THEN process_handler(db, states, event, get_user(db, uid), fault)
            ELSE [db |-> db, result |-> "ok"]

\* RedisStreamConsumer.process_event(event_id, event_data): the user database
\* it leaves and how it ended ("ok", or the kind of exception its except
\* clause caught and logged).
process_event(db, states, fields, fault) ==
  IF EntryUnreadable(fields)
    THEN [db |-> db, result |-> "bad_entry"]
    ELSE
      LET event == EventOf(fields)
          uid == event.event_properties["user_id"]
      IN
        IF fault = "get_user"
          THEN [db |-> db, result |-> "transient"]
          ELSE IF UserExists(db, uid)
            THEN process_handler(db, states, event, get_user(db, uid), fault)
            ELSE IF fault = "create_user"
              THEN [db |-> db, result |-> "transient"]
              ELSE process_handler(save_user(db, UserData(uid)), states, event,
                                   UserData(uid), fault)

CurrentEntry(w) == Head(batch[w])

\* Mutant: xreadgroup returns the new entries newest first.
Read_NewestFirst(w) ==
  /\ pc[w] = "read"
  /\ Len(stream) > 0
  /\ LET n == Min(ReadCount, Len(stream)) IN
       /\ batch' = [batch EXCEPT ![w] = [k \in 1..n |-> stream[n + 1 - k]]]
       /\ pending' = pending \cup { stream[i].id : i \in 1..n }
       /\ stream' = SubSeq(stream, n + 1, Len(stream))
       /\ deliveries' =
            [ i \in EntryIds |->
                IF i \in { stream[k].id : k \in 1..n } THEN deliveries[i] + 1
                ELSE deliveries[i] ]
  /\ pc' = [pc EXCEPT ![w] = "process"]
  /\ UNCHANGED <<users_db, tripVars, now, next_id, result, processed, ack_count, posts,
                 direct_calls,
                 rule_call, auxVars>>

\* Mutant: xreadgroup with noack, the entries count as acknowledged on
\* delivery.
Read_NoAck(w) ==
  /\ pc[w] = "read"
  /\ Len(stream) > 0
  /\ LET n == Min(ReadCount, Len(stream)) IN
       /\ batch' = [batch EXCEPT ![w] = SubSeq(stream, 1, n)]
       /\ stream' = SubSeq(stream, n + 1, Len(stream))
       /\ deliveries' =
            [ i \in EntryIds |->
                IF i \in { stream[k].id : k \in 1..n } THEN deliveries[i] + 1
                ELSE deliveries[i] ]
       /\ ack_count' =
            [ i \in EntryIds |->
                IF i \in { stream[k].id : k \in 1..n } THEN ack_count[i] + 1
                ELSE ack_count[i] ]
  /\ pc' = [pc EXCEPT ![w] = "process"]
  /\ UNCHANGED <<users_db, tripVars, now, next_id, pending, result, processed, posts,
                 direct_calls,
                 rule_call, auxVars>>

\* Mutant: xreadgroup returns the entries and leaves them readable, so the
\* next read delivers them again.
Read_KeepsEntries(w) ==
  /\ pc[w] = "read"
  /\ Len(stream) > 0
  /\ LET n == Min(ReadCount, Len(stream)) IN
       /\ batch' = [batch EXCEPT ![w] = SubSeq(stream, 1, n)]
       /\ pending' = pending \cup { stream[i].id : i \in 1..n }
       /\ deliveries' =
            [ i \in EntryIds |->
                IF i \in { stream[k].id : k \in 1..n } THEN Min(deliveries[i] + 1, 2)
                ELSE deliveries[i] ]
  /\ pc' = [pc EXCEPT ![w] = "process"]
  /\ UNCHANGED <<users_db, tripVars, now, stream, next_id, result, processed,
                 ack_count, posts, direct_calls,
                 rule_call, auxVars>>

\* start(): xreadgroup(group1, consumer, {event_stream: ">"}, count=10).
Read(w) ==
  /\ pc[w] = "read"
  /\ Len(stream) > 0
  /\ LET n == Min(ReadCount, Len(stream)) IN
       /\ batch' = [batch EXCEPT ![w] = SubSeq(stream, 1, n)]
       /\ pending' = pending \cup { stream[i].id : i \in 1..n }
       /\ stream' = SubSeq(stream, n + 1, Len(stream))
       /\ deliveries' =
            [ i \in EntryIds |->
                IF i \in { stream[k].id : k \in 1..n } THEN deliveries[i] + 1
                ELSE deliveries[i] ]
  /\ pc' = [pc EXCEPT ![w] = "process"]
  /\ UNCHANGED <<users_db, tripVars, now, next_id, result, processed, ack_count, posts,
                 direct_calls,
                 rule_call, auxVars>>

\* Mutant: process_event has no except clause, an exception raised for the
\* entry leaves start() and ends the worker.
ProcessEvent_Propagates(w) ==
  /\ pc[w] = "process"
  /\ \E fault \in Faults :
       LET r == process_event(users_db, tripwire_states, CurrentEntry(w).fields, fault) IN
         /\ users_db' = r.db
         /\ result' = [result EXCEPT ![w] = r.result]
         /\ pc' = [pc EXCEPT ![w] = IF r.result = "ok" THEN "ack" ELSE "crashed"]
  /\ processed' = processed \cup {CurrentEntry(w).id}
  /\ UNCHANGED <<tripVars, now, streamVars, batch, deliveries, ack_count, posts,
                 direct_calls,
                 rule_call, auxVars>>

\* start(): process_event for the next entry of the batch.
ProcessEvent(w) ==
  /\ pc[w] = "process"
  /\ \E fault \in Faults :
       LET r == process_event(users_db, tripwire_states, CurrentEntry(w).fields, fault) IN
         /\ users_db' = r.db
         /\ result' = [result EXCEPT ![w] = r.result]
  /\ processed' = processed \cup {CurrentEntry(w).id}
  /\ pc' = [pc EXCEPT ![w] = "ack"]
  /\ UNCHANGED <<tripVars, now, streamVars, batch, deliveries, ack_count, posts,
                 direct_calls,
                 rule_call, auxVars>>

\* start(): xack of the entry just processed, then the next entry of the
\* batch, or the next xreadgroup.
Ack(w) ==
  /\ pc[w] = "ack"
  /\ pending' = pending \ {CurrentEntry(w).id}
  /\ ack_count' = [ack_count EXCEPT ![CurrentEntry(w).id] = @ + 1]
  /\ batch' = [batch EXCEPT ![w] = Tail(batch[w])]
  /\ result' = [result EXCEPT ![w] = "none"]
  /\ pc' = [pc EXCEPT ![w] = IF Tail(batch[w]) = <<>> THEN "read" ELSE "process"]
  /\ UNCHANGED <<users_db, tripVars, now, stream, next_id, processed, deliveries,
                 posts, direct_calls,
                 rule_call, auxVars>>

\* start(): xack raises (connection error); the except clause of the loop logs
\* it and the loop goes on to the next xreadgroup, leaving the rest of the
\* batch undone.
AckFail(w) ==
  /\ pc[w] = "ack"
  /\ batch' = [batch EXCEPT ![w] = <<>>]
  /\ result' = [result EXCEPT ![w] = "none"]
  /\ pc' = [pc EXCEPT ![w] = "read"]
  /\ UNCHANGED <<users_db, tripVars, now, streamVars, historyVars, auxVars>>

\* ------------------------------------------------------- tripwire manager
\* Mutant: the state computed for one rule is written to every rule that has
\* a state.
apply_tripwire_if_needed_OneStateForAll(rule_name, user_id, total_users) ==
  /\ affected_users' =
       [ affected_users EXCEPT
           ![rule_name] = AffectedAfterApply(affected_users[rule_name], user_id, now) ]
  /\ tripwire_states' =
       [ r \in DOMAIN tripwire_states \cup {rule_name} |->
           TripwireStateAfterApply(affected_users[rule_name], user_id, now,
                                   total_users) ]
  /\ last_apply' =
       [ r \in DOMAIN last_apply \cup {rule_name} |->
           IF r = rule_name
             THEN [ affected_count |->
                      Cardinality(DOMAIN AffectedAfterApply(affected_users[rule_name],
                                                            user_id, now)),
                    total_users |-> total_users ]
             ELSE last_apply[r] ]

\* RedisTripwireManager.apply_tripwire_if_needed(rule_name, user_id,
\* total_users) called with all its arguments at time `now`.
apply_tripwire_if_needed(rule_name, user_id, total_users) ==
  /\ affected_users' =
       [ affected_users EXCEPT
           ![rule_name] = AffectedAfterApply(affected_users[rule_name], user_id, now) ]
  /\ tripwire_states' =
       [ r \in DOMAIN tripwire_states \cup {rule_name} |->
           IF r = rule_name
             THEN TripwireStateAfterApply(affected_users[rule_name], user_id, now,
                                          total_users)
             ELSE tripwire_states[r] ]
  /\ last_apply' =
       [ r \in DOMAIN last_apply \cup {rule_name} |->
           IF r = rule_name
             THEN [ affected_count |->
                      Cardinality(DOMAIN AffectedAfterApply(affected_users[rule_name],
                                                            user_id, now)),
                    total_users |-> total_users ]
             ELSE last_apply[r] ]

\* A direct call of the tripwire manager beside the running pipeline (as the
\* integration tests make it).
DirectApply(rule_name, user_id, total_users) ==
  /\ direct_calls < MaxDirect
  /\ direct_calls' = direct_calls + 1
  /\ apply_tripwire_if_needed(rule_name, user_id, total_users)
  /\ UNCHANGED <<users_db, now, streamVars, workerVars, processed, deliveries,
                 ack_count, posts, rule_call, auxVars>>

\* The clock advances.
Tick(d) ==
  /\ now + d <= MaxTime
  /\ now' = now + d
  /\ UNCHANGED <<users_db, tripVars, streamVars, workerVars, historyVars, auxVars>>

\* A call of the tripwire manager on its own (as the unit and integration
\* tests of the manager make it). User ids are only compared for equality, so
\* a user not yet in the rule's hash is taken in a fixed order.
NextFreshUser(hash) ==
  { TripUserOrder[i] : i \in { j \in 1..Len(TripUserOrder) :
                                /\ TripUserOrder[j] \notin DOMAIN hash
                                /\ \A k \in 1..(j - 1) : TripUserOrder[k] \in DOMAIN hash } }

ManagerApply(rule_name, user_id, total_users) ==
  /\ user_id \in DOMAIN affected_users[rule_name]
                 \cup NextFreshUser(affected_users[rule_name])
  /\ apply_tripwire_if_needed(rule_name, user_id, total_users)
  /\ UNCHANGED <<users_db, now, streamVars, workerVars, historyVars, auxVars>>

\* ------------------------------------------------- direct calls (unit use)
\* Mutant: process_rule saves the user also when the predicate is false.
process_rule_SavesWhenSkipped(states, rule_name, user) ==
  IF is_rule_disabled_via_tripwire(states, rule_name)
    THEN [returned |-> "False", user |-> user, saves |-> 0]
    ELSE IF evaluate_rule(rule_name, user)
      THEN [returned |-> "True", user |-> apply_rule(rule_name, user), saves |-> 1]
      ELSE [returned |-> "None", user |-> user, saves |-> 1]

\* BaseRule.process_rule(user_data): what it returns, the aggregate it
\* leaves in user_data and the number of save_user calls it makes.
process_rule(states, rule_name, user) ==
  IF is_rule_disabled_via_tripwire(states, rule_name)
    THEN [returned |-> "False", user |-> user, saves |-> 0]
    ELSE IF evaluate_rule(rule_name, user)
      THEN [returned |-> "True", user |-> apply_rule(rule_name, user), saves |-> 1]
      ELSE [returned |-> "None", user |-> user, saves |-> 0]

\* rule.process_rule(user_data) called on the stored aggregate of uid.
ProcessRule(rule_name, uid) ==
  /\ UserExists(users_db, uid)
  /\ LET r == process_rule(tripwire_states, rule_name, get_user(users_db, uid)) IN
       /\ users_db' = IF r.saves > 0 THEN save_user(users_db, r.user) ELSE users_db
       /\ rule_call' = [rule |-> rule_name, returned |-> r.returned, saves |-> r.saves]
  /\ UNCHANGED <<tripVars, now, streamVars, workerVars, processed, deliveries,
                 ack_count, posts, direct_calls, auxVars>>

\* The events of direct handler calls for uid: the next unused card_id with a
\* zip code already used or the next unused one, and the other events.
DirectEvents(user) ==
  { CardEvent(user.user_id, <<RuleCardOrder[user.total_credit_cards + 1], RuleZipOrder[z]>>) :
      z \in 1..(Cardinality(user.unique_zip_codes) + 1) }
    \cup { PlainEvent("scam_message_flagged", user.user_id) }
    \cup { AmountEvent("chargeback_occurred", user.user_id, a) :
             a \in DirectChargebackAmounts }
    \cup { AmountEvent("purchase_made", user.user_id, a) : a \in DirectPurchaseAmounts }

WithinBounds(user) ==
  /\ user.total_credit_cards <= MaxCards
  /\ user.scam_message_flags <= MaxFlags
  /\ user.total_spend <= MaxSpend /\ user.total_spend >= -MaxSpend
  /\ user.total_chargebacks <= MaxChargebacks /\ user.total_chargebacks >= -MaxChargebacks

\* handler.handle(event, user_data) called on the stored aggregate of uid;
\* the handler saves the aggregate.
Handle(uid) ==
  /\ UserExists(users_db, uid)
  /\ \E event \in DirectEvents(get_user(users_db, uid)) :
       /\ ~HandlerRaisesValueError(event)
       /\ WithinBounds(handle(event, get_user(users_db, uid)))
       /\ users_db' = save_user(users_db, handle(event, get_user(users_db, uid)))
  /\ UNCHANGED <<tripVars, now, streamVars, workerVars, historyVars, auxVars>>

\* State after user_manager.create_user("u1") on the empty databases.
InitRule ==
  /\ users_db = save_user([uid \in {} |-> UserData(uid)], UserData("u1"))
  /\ tripwire_states = [r \in {} |-> "0"]
  /\ affected_users = [r \in RuleNames |-> [uid \in {} |-> 0]]
  /\ now = 0
  /\ stream = <<[id |-> 1, fields |-> InitFields]>>
  /\ next_id = 2
  /\ pending = {}
  /\ pc = [w \in Workers |-> "read"]
  /\ batch = [w \in Workers |-> <<>>]
  /\ result = [w \in Workers |-> "none"]
  /\ processed = {}
  /\ deliveries = [i \in EntryIds |-> 0]
  /\ ack_count = [i \in EntryIds |-> 0]
  /\ posts = 0
  /\ direct_calls = 0
  /\ last_apply = [r \in {} |-> [affected_count |-> 0, total_users |-> 0]]
  /\ rule_call = [rule |-> NoVal, returned |-> NoVal, saves |-> 0]
  /\ response = NoResponse
  /\ stop_calls = 0
  /\ local = [w \in DOMAIN pc |-> NoVal]
  /\ group_exists = TRUE
  /\ count_call = NoCount

\* ------------------------------------------------------------ specification
\* The pipeline: publisher, stream and the consumer worker.
Next ==
  \/ \E event \in PostableEvents : Post(event)
  \/ \E w \in Workers : Read(w)
  \/ \E w \in Workers : ProcessEvent(w)
  \/ \E w \in Workers : Ack(w)
  \/ \E w \in Workers : AckFail(w)

Spec == Init /\ [][Next]_vars

\* The worker's loop keeps running: a read that has entries to return, the
\* processing of an entry and an xack that does not raise are not postponed
\* forever. (A raising xack is not forced to happen.)
FairSpec ==
  Spec /\ WF_vars(\E w \in Workers : Read(w) \/ ProcessEvent(w) \/ Ack(w))

\* The pipeline on the events that can make a rule fire, with direct calls of
\* the tripwire manager and the clock.
NextTripwire ==
  \/ \E event \in RuleEvents : Post(event)
  \/ \E w \in Workers : Read(w)
  \/ \E w \in Workers : ProcessEvent(w)
  \/ \E w \in Workers : Ack(w)
  \/ \E w \in Workers : AckFail(w)
  \/ \E r \in RuleNames, u \in DirectUserIds, t \in DirectTotalUsersInputs :
       DirectApply(r, u, t)
  \/ \E d \in LongTickSteps : Tick(d)

TripwireSpec == Init /\ [][NextTripwire]_vars

\* The tripwire manager on its own.
NextManager ==
  \/ \E u \in TripUserIds, t \in TotalUsersInputs :
       ManagerApply("scam_message_rule", u, t)
  \/ \E r \in RuleNames \ {"scam_message_rule"}, t \in TotalUsersInputs :
       ManagerApply(r, "u1", t)
  \/ \E d \in TickSteps : Tick(d)

ManagerSpec == Init /\ [][NextManager]_vars

\* Handlers, rules and the tripwire manager called directly on one user (as
\* the unit tests of the rules and handlers call them).
NextRule ==
  \/ Handle("u1")
  \/ \E r \in RuleNames : ProcessRule(r, "u1")
  \/ \E r \in RuleNames, t \in RuleTotalUsersInputs : ManagerApply(r, "u1", t)

RuleSpec == InitRule /\ [][NextRule]_vars

\* Two worker processes of the same consumer group, each running start() on
\* the same stream (both read under the configured consumer name; the names
\* here tell the processes apart).
GroupWorkers == {"worker1", "worker2"}

\* The events posted while two workers read.
GroupEvents ==
  { PlainEvent("scam_message_flagged", u) : u \in UserIds }
    \cup { PlainEvent(UnknownEventName, "u1") }

\* Both workers constructed on a flushed stream database: the first
\* __init__ created the stream with its init entry and the group, the second
\* found both.
InitGroup ==
  /\ users_db = [uid \in {} |-> UserData(uid)]
  /\ tripwire_states = [r \in {} |-> "0"]
  /\ affected_users = [r \in RuleNames |-> [uid \in {} |-> 0]]
  /\ now = 0
  /\ stream = << [id |-> 1, fields |-> InitFields] >>
  /\ next_id = 2
  /\ pending = {}
  /\ pc = [w \in GroupWorkers |-> "read"]
  /\ batch = [w \in GroupWorkers |-> <<>>]
  /\ result = [w \in GroupWorkers |-> "none"]
  /\ processed = {}
  /\ deliveries = [i \in EntryIds |-> 0]
  /\ ack_count = [i \in EntryIds |-> 0]
  /\ posts = 0
  /\ direct_calls = 0
  /\ last_apply = [r \in {} |-> [affected_count |-> 0, total_users |-> 0]]
  /\ rule_call = [rule |-> NoVal, returned |-> NoVal, saves |-> 0]
  /\ response = NoResponse
  /\ stop_calls = 0
  /\ local = [w \in DOMAIN pc |-> NoVal]
  /\ group_exists = TRUE
  /\ count_call = NoCount

NextGroup ==
  \/ \E event \in GroupEvents : Post(event)
  \/ \E w \in GroupWorkers : Read(w)
  \/ \E w \in GroupWorkers : ProcessEvent(w)
  \/ \E w \in GroupWorkers : Ack(w)
  \/ \E w \in GroupWorkers : AckFail(w)

GroupSpec == InitGroup /\ [][NextGroup]_vars

\* ------------------------------------------------ the loop, stop and errors
\* RedisStreamConsumer.stop(): it sets self._stop_event, an attribute that
\* __init__ never creates, so the call raises AttributeError to its caller and
\* leaves the consumer as it was; start() loops on `while True` and reads no
\* stop signal.
Stop ==
  /\ stop_calls < MaxStops
  /\ stop_calls' = stop_calls + 1
  /\ UNCHANGED <<users_db, tripVars, now, streamVars, workerVars, historyVars, response,
                 local, group_exists, count_call>>

\* start(): xreadgroup raises (connection error); the except clause of the
\* loop logs it and the loop goes on to the next xreadgroup.
ReadFail(w) ==
  /\ pc[w] = "read"
  /\ result[w] # "read_error"
  /\ result' = [result EXCEPT ![w] = "read_error"]
  /\ UNCHANGED <<users_db, tripVars, now, streamVars, pc, batch, historyVars, auxVars>>

\* The consumer loop with every failure it can meet and stop() calls.
NextLoop ==
  \/ \E event \in GroupEvents : Post(event)
  \/ \E w \in Workers : Read(w)
  \/ \E w \in Workers : ReadFail(w)
  \/ \E w \in Workers : ProcessEvent(w)
  \/ \E w \in Workers : Ack(w)
  \/ \E w \in Workers : AckFail(w)
  \/ Stop

LoopSpec == Init /\ [][NextLoop]_vars

\* ---------------------------------------------------------------- the API
\* A user_id value that is not a str (the JSON number 123); values are only
\* tested for being empty and for being a str.
NonStringValues == {"<123>"}

\* The events clients send to POST /event: three that pass validation (one of
\* them with a name nothing is registered for) and one for each way of
\* failing it: empty name, empty event_properties, no user_id, empty user_id,
\* user_id that is not a str.
RequestEvents ==
  { PlainEvent("scam_message_flagged", "u1"),
    CardEvent("u1", <<"c1", "z1">>),
    PlainEvent(UnknownEventName, "u1"),
    PlainEvent("", "u1"),
    [name |-> "scam_message_flagged", event_properties |-> [k \in {} |-> NoVal]],
    [name |-> "credit_card_added", event_properties |-> [k \in {"card_id"} |-> "c1"]],
    PlainEvent("scam_message_flagged", "") }
    \cup { PlainEvent("scam_message_flagged", v) : v \in NonStringValues }

\* Event.user_id raises ValueError: user_id is missing, empty or not a str.
user_id_raises(event) ==
  \/ "user_id" \notin DOMAIN event.event_properties
  \/ event.event_properties["user_id"] = ""
  \/ event.event_properties["user_id"] \in NonStringValues

\* Mutant: the publisher keeps only user_id of the event's properties.
event_data_OnlyUserId(event) ==
  [ name |-> event.name,
    event_properties |->
      json_dumps([k \in {"user_id"} |-> event.event_properties["user_id"]]) ]

\* add_event_to_stream: event.dict() with event_properties serialized.
event_data(event) ==
  [name |-> event.name, event_properties |-> json_dumps(event.event_properties)]

\* Mutant: the publisher does not look at user_id.
add_event_to_stream_NoUserIdCheck(event, xadd_raises) ==
  IF event.name = "" \/ DOMAIN event.event_properties = {}
    THEN [status |-> 400, body |-> [detail |-> "Event is missing required fields"]]
    ELSE IF xadd_raises
      THEN [ status |-> 500,
             body |-> [detail |-> "Unexpected error occurred while adding event"] ]
      ELSE [status |-> 200, body |-> [status |-> "added to the stream"]]

\* EventPublisher.add_event_to_stream(event): the status code and body of the
\* response; the entry is appended exactly when the status is 200.
add_event_to_stream(event, xadd_raises) ==
  IF event.name = "" \/ DOMAIN event.event_properties = {}
    THEN [status |-> 400, body |-> [detail |-> "Event is missing required fields"]]
    ELSE IF user_id_raises(event)
      THEN [status |-> 400, body |-> [detail |-> "Validation error"]]
      ELSE IF xadd_raises
        THEN [ status |-> 500,
               body |-> [detail |-> "Unexpected error occurred while adding event"] ]
        ELSE [status |-> 200, body |-> [status |-> "added to the stream"]]

\* POST /event (app.handle_event).
HandleEvent(event, xadd_raises) ==
  LET r == add_event_to_stream(event, xadd_raises) IN
    /\ r.status = 200 => posts < MaxPosts
    /\ IF r.status = 200
         THEN /\ stream' = Append(stream, [id |-> next_id, fields |-> event_data(event)])
              /\ next_id' = next_id + 1
              /\ posts' = posts + 1
         ELSE UNCHANGED <<stream, next_id, posts>>
    /\ response' =
         [ endpoint |-> "/event", request |-> [event |-> event], status |-> r.status,
           body |-> r.body ]
    /\ UNCHANGED <<users_db, tripVars, now, pending, workerVars, processed, deliveries,
                   ack_count, direct_calls, rule_call, stop_calls, local, group_exists, count_call>>

\* JSON form of a flag value in a response body.
json_bool(b) == IF b THEN "true" ELSE "false"

\* RedisEndpointAccess.check_access(user_id, access_key): the status code and
\* body of the response.
check_access(db, user_id, access_key, get_raises) ==
  IF get_raises
    THEN [status |-> 500, body |-> [detail |-> "An unexpected error occurred."]]
    ELSE IF ~UserExists(db, user_id)
      THEN [status |-> 200, body |-> [error |-> "No user found"]]
      ELSE [ status |-> 200,
             body |-> [k \in {access_key} |->
                         json_bool(get_user(db, user_id).access_flags[access_key])] ]

EndpointOf(access_key) == IF access_key = "can_message" THEN "/canmessage" ELSE "/canpurchase"

\* Mutant: the query creates the default aggregate of a user it does not
\* find, as process_event does.
CheckAccess_CreatesUser(user_id, access_key, get_raises) ==
  /\ response' =
       LET r == check_access(users_db, user_id, access_key, get_raises) IN
         [ endpoint |-> EndpointOf(access_key), request |-> [user_id |-> user_id],
           status |-> r.status, body |-> r.body ]
  /\ users_db' = IF get_raises \/ UserExists(users_db, user_id) THEN users_db
                 ELSE save_user(users_db, UserData(user_id))
  /\ UNCHANGED <<tripVars, now, streamVars, workerVars, historyVars, stop_calls,
                 local, group_exists, count_call>>

\* GET /canmessage and GET /canpurchase (app.can_message, app.can_purchase).
CheckAccess(user_id, access_key, get_raises) ==
  /\ response' =
       LET r == check_access(users_db, user_id, access_key, get_raises) IN
         [ endpoint |-> EndpointOf(access_key), request |-> [user_id |-> user_id],
           status |-> r.status, body |-> r.body ]
  /\ UNCHANGED <<users_db, tripVars, now, streamVars, workerVars, historyVars, stop_calls,
                 local, group_exists, count_call>>

\* The API and the consumer side by side.
NextApi ==
  \/ \E event \in RequestEvents, xadd_raises \in BOOLEAN : HandleEvent(event, xadd_raises)
  \/ \E u \in UserIds, k \in {"can_message", "can_purchase"}, get_raises \in BOOLEAN :
       CheckAccess(u, k, get_raises)
  \/ \E w \in Workers : Read(w)
  \/ \E w \in Workers : ProcessEvent(w)
  \/ \E w \in Workers : Ack(w)
  \/ \E w \in Workers : AckFail(w)

ApiSpec == Init /\ [][NextApi]_vars

\* ------------------------------------------- process_event in two steps
\* process_event up to the point where it holds user_data: the entry is
\* parsed and the user is read from the store, or created and saved with the
\* default values when the store has none. An entry that cannot be parsed
\* ends process_event at once.
RaceLoad(w) ==
  /\ pc[w] = "process"
  /\ IF EntryUnreadable(CurrentEntry(w).fields)
       THEN /\ pc' = [pc EXCEPT ![w] = "ack"]
            /\ result' = [result EXCEPT ![w] = "bad_entry"]
            /\ processed' = processed \cup {CurrentEntry(w).id}
            /\ UNCHANGED <<users_db, local>>
       ELSE LET uid == EventOf(CurrentEntry(w).fields).event_properties["user_id"] IN
            /\ pc' = [pc EXCEPT ![w] = "loaded"]
            /\ local' = [local EXCEPT ![w] = IF UserExists(users_db, uid)
                                               THEN get_user(users_db, uid)
                                               ELSE UserData(uid)]
            /\ users_db' = IF UserExists(users_db, uid) THEN users_db
                           ELSE save_user(users_db, UserData(uid))
            /\ UNCHANGED <<result, processed>>
  /\ UNCHANGED <<tripVars, now, streamVars, batch, deliveries, ack_count, posts,
                 direct_calls, rule_call, response, stop_calls, group_exists, count_call>>

\* Mutant: the handler updates the aggregate as it is stored at the time of
\* the save, not the object read earlier.
RaceFinish_UpdatesStored(w) ==
  /\ pc[w] = "loaded"
  /\ LET event == EventOf(CurrentEntry(w).fields)
         r == process_handler(users_db, tripwire_states, event,
                              get_user(users_db, event.event_properties["user_id"]), "none")
     IN /\ users_db' = r.db
        /\ result' = [result EXCEPT ![w] = r.result]
  /\ processed' = processed \cup {CurrentEntry(w).id}
  /\ local' = [local EXCEPT ![w] = NoVal]
  /\ pc' = [pc EXCEPT ![w] = "ack"]
  /\ UNCHANGED <<tripVars, now, streamVars, batch, deliveries, ack_count, posts,
                 direct_calls, rule_call, response, stop_calls, group_exists, count_call>>

\* The rest of process_event: the handler changes the user_data object in
\* hand and saves it, then the rule of the event runs on the same object and
\* saves it again when it fires; every save writes the whole object.
RaceFinish(w) ==
  /\ pc[w] = "loaded"
  /\ LET event == EventOf(CurrentEntry(w).fields)
         r == process_handler(users_db, tripwire_states, event, local[w], "none")
     IN /\ users_db' = r.db
        /\ result' = [result EXCEPT ![w] = r.result]
  /\ processed' = processed \cup {CurrentEntry(w).id}
  /\ local' = [local EXCEPT ![w] = NoVal]
  /\ pc' = [pc EXCEPT ![w] = "ack"]
  /\ UNCHANGED <<tripVars, now, streamVars, batch, deliveries, ack_count, posts,
                 direct_calls, rule_call, response, stop_calls, group_exists, count_call>>

\* Two workers of one group, each running process_event in two steps, so that
\* one worker's reads and saves fall between the other's.
NextRace ==
  \/ \E event \in GroupEvents : Post(event)
  \/ \E w \in GroupWorkers : Read(w)
  \/ \E w \in GroupWorkers : RaceLoad(w)
  \/ \E w \in GroupWorkers : RaceFinish(w)
  \/ \E w \in GroupWorkers : Ack(w)
  \/ \E w \in GroupWorkers : AckFail(w)

RaceSpec == InitGroup /\ [][NextRace]_vars

\* ------------------------------------------------------------- startup
\* Before any consumer was constructed: no stream, no group.
InitStartup ==
  /\ users_db = [uid \in {} |-> UserData(uid)]
  /\ tripwire_states = [r \in {} |-> "0"]
  /\ affected_users = [r \in RuleNames |-> [uid \in {} |-> 0]]
  /\ now = 0
  /\ stream = <<>>
  /\ next_id = 1
  /\ pending = {}
  /\ pc = [w \in GroupWorkers |-> "init"]
  /\ batch = [w \in GroupWorkers |-> <<>>]
  /\ result = [w \in GroupWorkers |-> "none"]
  /\ processed = {}
  /\ deliveries = [i \in EntryIds |-> 0]
  /\ ack_count = [i \in EntryIds |-> 0]
  /\ posts = 0
  /\ direct_calls = 0
  /\ last_apply = [r \in {} |-> [affected_count |-> 0, total_users |-> 0]]
  /\ rule_call = [rule |-> NoVal, returned |-> NoVal, saves |-> 0]
  /\ response = NoResponse
  /\ stop_calls = 0
  /\ local = [w \in GroupWorkers |-> NoVal]
  /\ group_exists = FALSE
  /\ count_call = NoCount

\* Mutant: BUSYGROUP is raised like any other error of xgroup_create.
InitializeConsumerGroup_BusyGroupRaises(w, create_raises) ==
  /\ pc[w] = "init"
  /\ stream' = IF next_id = 1 THEN Append(stream, [id |-> next_id, fields |-> InitFields])
               ELSE stream
  /\ next_id' = IF next_id = 1 THEN 2 ELSE next_id
  /\ IF create_raises
       THEN /\ pc' = [pc EXCEPT ![w] = "aborted"]
            /\ result' = [result EXCEPT ![w] = "group_error"]
            /\ UNCHANGED group_exists
       ELSE IF group_exists
         THEN /\ pc' = [pc EXCEPT ![w] = "aborted"]
              /\ result' = [result EXCEPT ![w] = "busygroup"]
              /\ UNCHANGED group_exists
         ELSE /\ pc' = [pc EXCEPT ![w] = "read"]
              /\ result' = [result EXCEPT ![w] = "group_created"]
              /\ group_exists' = TRUE
  /\ UNCHANGED <<users_db, tripVars, now, pending, batch, historyVars, response,
                 stop_calls, local, count_call>>

\* RedisStreamConsumer._initialize_consumer_group, called by __init__: the
\* stream gets its init entry when it does not exist (it exists once an entry
\* was added to it), then xgroup_create with id "0". BUSYGROUP is logged and
\* the existing group is used; any other error leaves __init__, so start()
\* is never called on this consumer.
InitializeConsumerGroup(w, create_raises) ==
  /\ pc[w] = "init"
  /\ stream' = IF next_id = 1 THEN Append(stream, [id |-> next_id, fields |-> InitFields])
               ELSE stream
  /\ next_id' = IF next_id = 1 THEN 2 ELSE next_id
  /\ IF create_raises
       THEN /\ pc' = [pc EXCEPT ![w] = "aborted"]
            /\ result' = [result EXCEPT ![w] = "group_error"]
            /\ UNCHANGED group_exists
       ELSE IF group_exists
         THEN /\ pc' = [pc EXCEPT ![w] = "read"]
              /\ result' = [result EXCEPT ![w] = "busygroup"]
              /\ UNCHANGED group_exists
         ELSE /\ pc' = [pc EXCEPT ![w] = "read"]
              /\ result' = [result EXCEPT ![w] = "group_created"]
              /\ group_exists' = TRUE
  /\ UNCHANGED <<users_db, tripVars, now, pending, batch, historyVars, response,
                 stop_calls, local, count_call>>

\* Two consumers constructed and started one after the other or side by side.
NextStartup ==
  \/ \E event \in GroupEvents : Post(event)
  \/ \E w \in GroupWorkers, create_raises \in BOOLEAN :
       InitializeConsumerGroup(w, create_raises)
  \/ \E w \in GroupWorkers : Read(w)
  \/ \E w \in GroupWorkers : ProcessEvent(w)
  \/ \E w \in GroupWorkers : Ack(w)
  \/ \E w \in GroupWorkers : AckFail(w)

StartupSpec == InitStartup /\ [][NextStartup]_vars

\* ------------------------------------------ user count as the denominator
\* RedisUserManager.create_user(user_id) called directly: a default aggregate
\* is saved under user_id. Users are created in a fixed order.
CreateUser(user_id) ==
  /\ user_id \in NextFreshUser(users_db)
  /\ users_db' = save_user(users_db, UserData(user_id))
  /\ UNCHANGED <<tripVars, now, streamVars, workerVars, historyVars, auxVars>>

\* A caller counts the stored users and hands the count to the tripwire
\* manager as its total_users argument (the manager's own call of
\* get_user_count is commented out, so the count comes from the caller):
\* total_users = user_manager.get_user_count();
\* apply_tripwire_if_needed(rule_name, user_id, total_users).
CountedApply(rule_name, user_id, keys_raises) ==
  /\ user_id \in DOMAIN affected_users[rule_name]
                 \cup NextFreshUser(affected_users[rule_name])
  /\ count_call' = [ raised |-> keys_raises,
                     returned |-> get_user_count(users_db, keys_raises) ]
  /\ apply_tripwire_if_needed(rule_name, user_id,
                              get_user_count(users_db, keys_raises))
  /\ UNCHANGED <<users_db, now, streamVars, workerVars, historyVars, response,
                 stop_calls, local, group_exists>>

\* The user manager and the tripwire manager called directly, the count of
\* the one feeding the other, for two of the rules.
NextCount ==
  \/ \E u \in TripUserIds : CreateUser(u)
  \/ \E u \in TripUserIds, f \in BOOLEAN :
       CountedApply("scam_message_rule", u, f)
  \/ \E f \in BOOLEAN : CountedApply("chargeback_ratio_rule", "u1", f)
  \/ \E d \in TickSteps : Tick(d)

CountSpec == Init /\ [][NextCount]_vars

\* ------------------------------------------------------------------ claims
FlagNames == {"can_message", "can_purchase"}

\* The step is start() calling process_event for the head of w's batch.
ProcessStep(w) == pc[w] = "process" /\ pc'[w] = "ack"

\* The event of the entry worker w is at, when the entry holds one.
HeadReadable(w) == batch[w] # <<>> /\ ~EntryUnreadable(CurrentEntry(w).fields)
HeadEvent(w) == EventOf(CurrentEntry(w).fields)
HeadUser(w) == HeadEvent(w).event_properties["user_id"]
HeadHasRule(w) == HeadReadable(w) /\ get_rules_for_event(HeadEvent(w).name) # <<>>
HeadRule(w) == get_rules_for_event(HeadEvent(w).name)[1]

\* C1: with a single consumer, once a stored access flag of a user is false,
\* no later step (an event of any name for any user, the rule enabled or
\* disabled by the tripwire) sets it back to true.
C1_FlagsNeverResurrected ==
  [][ \A u \in UserIds : \A f \in FlagNames :
        (u \in DOMAIN users_db /\ ~users_db[u].access_flags[f])
          => (u \in DOMAIN users_db' /\ ~users_db'[u].access_flags[f]) ]_vars

\* C1 witness: after the chargeback rule set can_purchase of u1 to false, a
\* scam event of u1 was processed while scam_message_rule is disabled, and
\* can_purchase is still false.
C1_Witness ==
  /\ "u1" \in DOMAIN users_db
  /\ ~users_db["u1"].access_flags["can_purchase"]
  /\ users_db["u1"].scam_message_flags = 1
  /\ is_rule_disabled_via_tripwire(tripwire_states, "scam_message_rule")
  /\ \E w \in Workers :
       /\ pc[w] = "ack"
       /\ result[w] = "ok"
       /\ HeadReadable(w)
       /\ HeadEvent(w) = PlainEvent("scam_message_flagged", "u1")

\* C2: a rule is disabled if and only if apply_tripwire_if_needed was called
\* for it and the most recent call computed affected_count / total_users >=
\* 0.05 (0 when total_users = 0); a rule never recomputed is enabled. With
\* total_users = 100, 4 affected users leave it enabled and 5 disable it.
C2_DisabledIffLastPercentage ==
  \A r \in RuleNames :
    /\ is_rule_disabled_via_tripwire(tripwire_states, r)
         <=> /\ r \in DOMAIN last_apply
             /\ last_apply[r].total_users # 0
             /\ 20 * last_apply[r].affected_count >= last_apply[r].total_users
    /\ (r \in DOMAIN last_apply /\ last_apply[r].total_users = 100)
         => (is_rule_disabled_via_tripwire(tripwire_states, r)
               <=> last_apply[r].affected_count >= 5)

\* C2 witness: the fifth live affected user of 100 disabled the rule.
C2_Witness ==
  /\ "scam_message_rule" \in DOMAIN last_apply
  /\ last_apply["scam_message_rule"] = [affected_count |-> 5, total_users |-> 100]
  /\ Cardinality(DOMAIN affected_users["scam_message_rule"]) = 5
  /\ is_rule_disabled_via_tripwire(tripwire_states, "scam_message_rule")

\* C3: while a rule is disabled by the tripwire, processing an event whose
\* handler makes the rule's predicate true leaves the access flags of the
\* user unchanged, and the handler's update of the aggregate is saved.
C3_DisabledRuleLeavesFlags ==
  [][ \A w \in Workers :
        ( /\ ProcessStep(w)
          /\ HeadHasRule(w)
          /\ is_rule_disabled_via_tripwire(tripwire_states, HeadRule(w))
          /\ result'[w] \in {"ok", "tripwire_call_error"}
          /\ evaluate_rule(HeadRule(w), users_db'[HeadUser(w)]) )
        => LET before == IF HeadUser(w) \in DOMAIN users_db
                           THEN users_db[HeadUser(w)]
                           ELSE UserData(HeadUser(w))
               after == users_db'[HeadUser(w)]
           IN /\ after.access_flags = before.access_flags
              /\ after = handle(HeadEvent(w), before) ]_vars

\* C3 witness: u2 reached two scam flags with can_message still true, the
\* event just processed without error while scam_message_rule is disabled.
C3_Witness ==
  /\ is_rule_disabled_via_tripwire(tripwire_states, "scam_message_rule")
  /\ "u2" \in DOMAIN users_db
  /\ users_db["u2"].scam_message_flags = 2
  /\ evaluate_rule("scam_message_rule", users_db["u2"])
  /\ users_db["u2"].access_flags["can_message"]
  /\ \E w \in Workers :
       /\ pc[w] = "ack"
       /\ result[w] = "ok"
       /\ HeadReadable(w)
       /\ HeadEvent(w) = PlainEvent("scam_message_flagged", "u2")

\* C4 (as claimed): after a rule was disabled by the tripwire and more than
\* 300 s passed since its affected users were recorded, the next pipeline
\* event that makes the rule's predicate true for a further user re-enables
\* the rule (the recompute expires the old entries) and sets that user's
\* target flag to false.
C4_ReenabledByNextActivation ==
  [][ \A w \in Workers :
        ( /\ ProcessStep(w)
          /\ HeadHasRule(w)
          /\ is_rule_disabled_via_tripwire(tripwire_states, HeadRule(w))
          /\ DOMAIN affected_users[HeadRule(w)] # {}
          /\ \A v \in DOMAIN affected_users[HeadRule(w)] :
               now - affected_users[HeadRule(w)][v] > time_window
          /\ HeadUser(w) \notin DOMAIN affected_users[HeadRule(w)]
          /\ result'[w] # "transient"
          /\ HeadUser(w) \in DOMAIN users_db'
          /\ evaluate_rule(HeadRule(w), users_db'[HeadUser(w)]) )
        => /\ ~is_rule_disabled_via_tripwire(tripwire_states', HeadRule(w))
           /\ ~users_db'[HeadUser(w)].access_flags[RuleFlag(HeadRule(w))] ]_vars

\* C5 (as claimed): every entry appended to the log is eventually processed
\* at least once; an entry delivered but not acknowledged stays pending and
\* is redelivered and processed later.
C5_EveryEntryEventuallyProcessed ==
  \A i \in EntryIds : (i < next_id) ~> (i \in processed)

\* C6: an entry is acknowledged only after process_event was called for it,
\* and an entry of a batch is processed only after the entries read before
\* it in that batch were acknowledged.
C6_BatchOrder ==
  /\ \A i \in EntryIds : ack_count[i] > 0 => i \in processed
  /\ \A w \in Workers : \A k \in 1..Len(batch[w]) :
       /\ ack_count[batch[w][k].id] = 0
       /\ batch[w][k].id \in processed => (k = 1 /\ pc[w] = "ack")

C6_BatchShrinksByAck ==
  \A w \in Workers :
    (batch[w] # <<>> /\ batch'[w] # <<>> /\ batch'[w] # batch[w])
      => /\ batch'[w] = Tail(batch[w])
         /\ CurrentEntry(w).id \in processed
         /\ ack_count'[CurrentEntry(w).id] = 1

C6_AckOnlyAfterProcessing == []C6_BatchOrder /\ [][C6_BatchShrinksByAck]_vars

\* C6 witness: the first entry of a batch of two was processed and
\* acknowledged, the second was processed and awaits its xack.
C6_Witness ==
  \E w \in Workers :
    /\ pc[w] = "ack"
    /\ Len(batch[w]) = 1
    /\ CurrentEntry(w).id = 3
    /\ deliveries[2] = 1 /\ ack_count[2] = 1 /\ 2 \notin pending
    /\ 3 \in processed /\ 3 \in pending

\* C7 (as claimed): an entry whose processing failed on a transient
\* backing-store error is not acknowledged and stays pending.
C7_TransientFailureStaysPending ==
  [][ \A w \in Workers :
        (pc[w] = "ack" /\ result[w] = "transient")
          => /\ CurrentEntry(w).id \in pending'
             /\ ack_count'[CurrentEntry(w).id] = 0 ]_vars

\* An entry the consumer drops: no readable event and user_id, no handler
\* for its name, or a required property missing.
PoisonEntry(fields) ==
  \/ EntryUnreadable(fields)
  \/ ~HasHandler(EventOf(fields).name)
  \/ HandlerRaisesValueError(EventOf(fields))

\* C8: a poison-pill entry is handed to xack after process_event and is not
\* retried; its xack removes it from the pending list, it is acknowledged
\* once and the consumer goes on to the next entry of the batch (or the next
\* read); no entry is delivered or acknowledged twice.
C8_NoRedelivery ==
  \A i \in EntryIds : deliveries[i] <= 1 /\ ack_count[i] <= 1

C8_PoisonStep ==
  \A w \in Workers :
    (batch[w] # <<>> /\ PoisonEntry(CurrentEntry(w).fields))
      => /\ (pc[w] = "process" /\ pc'[w] # "process")
              => /\ pc'[w] = "ack"
                 /\ batch'[w] = batch[w]
                 /\ result'[w] \in {"bad_entry", "bad_properties", "ok", "transient"}
                 /\ CurrentEntry(w).id \in pending'
         /\ (pc[w] = "ack" /\ ack_count'[CurrentEntry(w).id] # ack_count[CurrentEntry(w).id])
              => /\ ack_count'[CurrentEntry(w).id] = 1
                 /\ CurrentEntry(w).id \notin pending'
                 /\ batch'[w] = Tail(batch[w])
                 /\ pc'[w] = IF Tail(batch[w]) = <<>> THEN "read" ELSE "process"

C9_TotalCardsIsCardCount ==
  \A u \in DOMAIN users_db :
    users_db[u].total_credit_cards = Cardinality(DOMAIN users_db[u].credit_cards)

\* C9 witness: a credit_card_added event with the card_id u1 already holds
\* was processed, and u1 still counts one card.
C9_Witness ==
  /\ "u1" \in DOMAIN users_db
  /\ users_db["u1"].total_credit_cards = 1
  /\ DOMAIN users_db["u1"].credit_cards = {"c1"}
  /\ \E w \in Workers :
       /\ pc[w] = "ack" /\ result[w] = "ok"
       /\ HeadReadable(w)
       /\ HeadEvent(w) = CardEvent("u1", <<"c1", "z2">>)
       /\ users_db["u1"].credit_cards["c1"] = "z1"

\* C10: for every stored user, unique_zip_codes is the set of zip codes held
\* in credit_cards; a card_id keeps the zip code it was first added with, and
\* unique_zip_codes only grows.
C10_ZipsAreCardZips ==
  \A u \in DOMAIN users_db :
    users_db[u].unique_zip_codes
      = { users_db[u].credit_cards[c] : c \in DOMAIN users_db[u].credit_cards }

C10_FirstWriteWins ==
  \A u \in DOMAIN users_db :
    /\ u \in DOMAIN users_db'
    /\ users_db[u].unique_zip_codes \subseteq users_db'[u].unique_zip_codes
    /\ \A c \in DOMAIN users_db[u].credit_cards :
         /\ c \in DOMAIN users_db'[u].credit_cards
         /\ users_db'[u].credit_cards[c] = users_db[u].credit_cards[c]

C10_ZipSetMatchesCards == []C10_ZipsAreCardZips /\ [][C10_FirstWriteWins]_vars

\* C10 witness: u1 holds two cards with two zips, and an event giving card c1
\* the zip of c2 was processed without changing the mapping or the zip set.
C10_Witness ==
  /\ "u1" \in DOMAIN users_db
  /\ DOMAIN users_db["u1"].credit_cards = {"c1", "c2"}
  /\ users_db["u1"].unique_zip_codes = {"z1", "z2"}
  /\ \E w \in Workers :
       /\ pc[w] = "ack" /\ result[w] = "ok"
       /\ HeadReadable(w)
       /\ HeadEvent(w) = CardEvent("u1", <<"c1", "z2">>)
       /\ users_db["u1"].credit_cards["c1"] = "z1"
       /\ users_db["u1"].credit_cards["c2"] = "z2"

\* The stream entry the publisher writes for an event.
EntryFields(event) ==
  [name |-> event.name, event_properties |-> json_dumps(event.event_properties)]

\* process_event running to its end with no backing-store error.
Processed(db, states, event) == process_event(db, states, EntryFields(event), "none").db

\* The credit_card_added events that carry card_id and zip_code.
FullCardProps == { cz \in CardProps : cz[1] # NoVal }

\* From the store db, processing a credit_card_added event twice (the same
\* zip code or another one the second time) leaves what processing it once
\* leaves; for a user not yet stored that is one card and one zip code.
CardAddIdempotentOn(db, states) ==
  \A u \in UserIds : \A cz \in FullCardProps :
    LET once == Processed(db, states, CardEvent(u, cz)) IN
      /\ \A cz2 \in { p \in FullCardProps : p[1] = cz[1] } :
           Processed(once, states, CardEvent(u, cz2)) = once
      /\ u \notin DOMAIN db
           => /\ once[u].total_credit_cards = 1
              /\ Cardinality(once[u].unique_zip_codes) = 1

\* C11: processing credit_card_added again for a (user_id, card_id) already
\* processed has no further effect: from the empty store and from every
\* store process_event has just left, the second processing changes nothing
\* (two identical adds for a fresh user leave total_credit_cards = 1 and
\* one zip code); and the consumer's step on a card_id the user already
\* holds changes no counter or card field of any user.
C11_SecondAddIsNoOp ==
  (processed = {} \/ \E w \in Workers : pc[w] = "ack")
    => CardAddIdempotentOn(users_db, tripwire_states)

C11_KnownCardStep ==
  \A w \in Workers :
    ( /\ ProcessStep(w)
      /\ HeadReadable(w)
      /\ HeadEvent(w).name = "credit_card_added"
      /\ ~HandlerRaisesValueError(HeadEvent(w))
      /\ HeadUser(w) \in DOMAIN users_db
      /\ HeadEvent(w).event_properties["card_id"]
           \in DOMAIN users_db[HeadUser(w)].credit_cards )
    => /\ [users_db'[HeadUser(w)] EXCEPT
             !.access_flags = users_db[HeadUser(w)].access_flags]
            = users_db[HeadUser(w)]
       /\ \A v \in DOMAIN users_db \ {HeadUser(w)} : users_db'[v] = users_db[v]

C11_CardAddIdempotent == []C11_SecondAddIsNoOp /\ [][C11_KnownCardStep]_vars

\* C11 witness: the only two posted events were adds of card c1 for u1; the
\* second one was processed and u1 holds what the first add left.
C11_Witness ==
  /\ posts = 2
  /\ processed = {1, 2, 3}
  /\ users_db = save_user([uid \in {} |-> UserData(uid)],
                          handle(CardEvent("u1", <<"c1", "z1">>), UserData("u1")))
  /\ \E w \in Workers :
       /\ pc[w] = "ack" /\ result[w] = "ok"
       /\ CurrentEntry(w).id = 3
       /\ HeadEvent(w) = CardEvent("u1", <<"c1", "z2">>)

\* C12: a step that touches the affected users of a rule is one call
\* apply_tripwire_if_needed(rule, user, total_users) at the current time: it
\* removes exactly the entries with timestamp <= now - 300 (300 s old is
\* removed, younger is kept), sets the caller's entry to now, and decides the
\* state on the size of the resulting hash; every other step (the clock
\* included) leaves the hash as it is.
C12_ExpiryInsideCall ==
  \A r \in RuleNames :
    \/ affected_users'[r] = affected_users[r]
    \/ \E u \in TripUserIds :
         LET kept == { v \in DOMAIN affected_users[r] :
                         affected_users[r][v] > now - 300 }
         IN /\ now' = now
            /\ DOMAIN affected_users'[r] = kept \cup {u}
            /\ affected_users'[r][u] = now
            /\ \A v \in kept \ {u} : affected_users'[r][v] = affected_users[r][v]
            /\ r \in DOMAIN last_apply'
            /\ last_apply'[r].affected_count = Cardinality(kept \cup {u})
            /\ (tripwire_states'[r] = "1")
                 <=> /\ last_apply'[r].total_users > 0
                     /\ 100 * Cardinality(kept \cup {u}) >= 5 * last_apply'[r].total_users

C12_ExpiryAtWindow == [][C12_ExpiryInsideCall]_vars

\* C12 witness: at time 300 a call for u3 removed the entry of u1 recorded at
\* time 0 (exactly 300 s old) and kept the entry of u2 recorded at time 150.
C12_Witness ==
  /\ now = 300
  /\ DOMAIN affected_users["scam_message_rule"] = {"u2", "u3"}
  /\ affected_users["scam_message_rule"]["u2"] = 150
  /\ affected_users["scam_message_rule"]["u3"] = 300
  /\ last_apply["scam_message_rule"].affected_count = 2

\* C13: a call apply_tripwire_if_needed with total_users = 0 takes the
\* percentage as 0: whatever the size of the affected hash, and whether the
\* rule was disabled before or not, the call writes state "0" and the rule
\* reads as enabled.
C13_ZeroTotalEnabled ==
  \A r \in RuleNames :
    (r \in DOMAIN last_apply /\ last_apply[r].total_users = 0)
      => /\ r \in DOMAIN tripwire_states
         /\ tripwire_states[r] = "0"
         /\ ~is_rule_disabled_via_tripwire(tripwire_states, r)

C13_ZeroTotalStep ==
  \A r \in RuleNames :
    ( /\ r \in DOMAIN last_apply'
      /\ last_apply'[r].total_users = 0
      /\ (r \notin DOMAIN last_apply \/ last_apply'[r] # last_apply[r]) )
    => /\ tripwire_states'[r] = "0"
       /\ last_apply'[r].affected_count = Cardinality(DOMAIN affected_users'[r])
       /\ last_apply'[r].affected_count >= 1

C13_ZeroTotalUsersNeverDisables == []C13_ZeroTotalEnabled /\ [][C13_ZeroTotalStep]_vars

\* C13 witness: with five live affected users a call with total_users = 0
\* left scam_message_rule enabled.
C13_Witness ==
  /\ "scam_message_rule" \in DOMAIN last_apply
  /\ last_apply["scam_message_rule"] = [affected_count |-> 5, total_users |-> 0]
  /\ Cardinality(DOMAIN affected_users["scam_message_rule"]) = 5
  /\ tripwire_states["scam_message_rule"] = "0"

\* The aggregate process_event starts from for the user of w's entry.
HeadBefore(w) ==
  IF HeadUser(w) \in DOMAIN users_db THEN users_db[HeadUser(w)] ELSE UserData(HeadUser(w))

\* C14: with scam_message_rule enabled, processing a scam_message_flagged
\* event adds one flag and the rule fires exactly when the count is then >= 2:
\* can_message stays as it was at one flag (true for a fresh user) and is
\* false from the second flag on.
C14_ScamStep ==
  \A w \in Workers :
    ( /\ ProcessStep(w)
      /\ HeadReadable(w)
      /\ HeadEvent(w).name = "scam_message_flagged"
      /\ ~is_rule_disabled_via_tripwire(tripwire_states, "scam_message_rule")
      /\ result'[w] \in {"ok", "tripwire_call_error"} )
    => LET after == users_db'[HeadUser(w)] IN
         /\ after.scam_message_flags = HeadBefore(w).scam_message_flags + 1
         /\ after.access_flags["can_message"]
              = (HeadBefore(w).access_flags["can_message"] /\ after.scam_message_flags < 2)
         /\ (result'[w] = "tripwire_call_error") <=> (after.scam_message_flags >= 2)
         /\ HeadUser(w) \notin DOMAIN users_db
              => (after.scam_message_flags = 1 /\ after.access_flags["can_message"])

C14_ScamRuleAtTwo == [][C14_ScamStep]_vars

\* C14 witness: the only two posted events were scam reports of u1; the
\* second one was processed and set can_message to false.
C14_Witness ==
  /\ posts = 2
  /\ processed = {1, 2, 3}
  /\ users_db = save_user([uid \in {} |-> UserData(uid)],
                          [UserData("u1") EXCEPT !.scam_message_flags = 2,
                                                 !.access_flags["can_message"] = FALSE])
  /\ \E w \in Workers :
       /\ pc[w] = "ack"
       /\ CurrentEntry(w).id = 3
       /\ HeadEvent(w) = PlainEvent("scam_message_flagged", "u1")

\* The step is a direct call rule.process_rule(user_data) of the named rule
\* that changed the recorded outcome, made while the rule is enabled.
EnabledRuleCall(rule_name) ==
  /\ rule_call' # rule_call
  /\ rule_call'.rule = rule_name
  /\ ~is_rule_disabled_via_tripwire(tripwire_states, rule_name)

\* C15: unique_zip_code_rule fires exactly when total_credit_cards > 2 and
\* |unique_zip_codes| / total_credit_cards > 0.75: never with two or fewer
\* cards, not at a ratio of exactly 0.75; when it fires can_purchase becomes
\* false, otherwise it stays as it was.
C15_ZipStep ==
  EnabledRuleCall("unique_zip_code_rule")
    => LET user == users_db["u1"]
           fires == /\ user.total_credit_cards > 2
                    /\ 4 * Cardinality(user.unique_zip_codes) > 3 * user.total_credit_cards
       IN /\ (rule_call'.returned = "True") <=> fires
          /\ user.total_credit_cards <= 2 => rule_call'.returned = "None"
          /\ users_db'["u1"].access_flags["can_purchase"]
               = (user.access_flags["can_purchase"] /\ ~fires)

C16_ChargebackStep ==
  EnabledRuleCall("chargeback_ratio_rule")
    => LET user == users_db["u1"]
           fires == /\ user.total_spend > 0
                    /\ 10 * user.total_chargebacks > user.total_spend
       IN /\ (rule_call'.returned = "True") <=> fires
          /\ user.total_spend = 0 => rule_call'.returned = "None"
          /\ users_db'["u1"].access_flags["can_purchase"]
               = (user.access_flags["can_purchase"] /\ ~fires)

C16_ChargebackRulePredicate == [][C16_ChargebackStep]_vars

\* C17: a direct process_rule call has one of three outcomes. Rule disabled:
\* it returns False and neither changes nor saves the user. Rule enabled and
\* predicate false: it returns None and neither changes nor saves the user.
\* Rule enabled and predicate true: it sets the rule's flag to false (and
\* nothing else), saves the user once and returns True.
C17_ProcessRuleStep ==
  rule_call' # rule_call
    => LET r == rule_call'.rule
           user == users_db["u1"]
       IN CASE is_rule_disabled_via_tripwire(tripwire_states, r) ->
                 /\ rule_call'.returned = "False"
                 /\ rule_call'.saves = 0
                 /\ users_db' = users_db
            [] ~is_rule_disabled_via_tripwire(tripwire_states, r)
                 /\ ~evaluate_rule(r, user) ->
                 /\ rule_call'.returned = "None"
                 /\ rule_call'.saves = 0
                 /\ users_db' = users_db
            [] OTHER ->
                 /\ rule_call'.returned = "True"
                 /\ rule_call'.saves = 1
                 /\ ~users_db'["u1"].access_flags[RuleFlag(r)]
                 /\ [users_db'["u1"] EXCEPT !.access_flags = user.access_flags] = user
                 /\ \A f \in FlagNames \ {RuleFlag(r)} :
                      users_db'["u1"].access_flags[f] = user.access_flags[f]

C18_TripwireStep ==
  \A w \in Workers :
    ( /\ ProcessStep(w)
      /\ HeadHasRule(w)
      /\ result'[w] \in {"ok", "tripwire_call_error"} )
    => IF RuleApplies(tripwire_states, HeadRule(w), users_db'[HeadUser(w)])
         THEN /\ ~users_db'[HeadUser(w)].access_flags[RuleFlag(HeadRule(w))]
              /\ affected_users' =
                   [ affected_users EXCEPT
                       ![HeadRule(w)] = AffectedAfterApply(@, HeadUser(w), now) ]
              /\ HeadRule(w) \in DOMAIN tripwire_states'
              /\ tripwire_states'[HeadRule(w)] =
                   TripwireStateAfterApply(affected_users[HeadRule(w)], HeadUser(w), now,
                                           get_user_count(users_db', FALSE))
         ELSE UNCHANGED <<tripwire_states, affected_users>>

C18_TripwireCalledIffApplied == [][C18_TripwireStep]_vars

\* C19: a single consumer processes entries in append order (entry ids grow
\* with every append). The entries waiting in the log and in the batch in
\* hand are in append order, and each processing step takes an entry appended
\* after every entry whose processing has completed, also when the two were
\* read in different batches.
C19_WaitingInAppendOrder ==
  /\ \A k \in 1..(Len(stream) - 1) : stream[k].id < stream[k + 1].id
  /\ \A w \in Workers :
       /\ \A k \in 1..(Len(batch[w]) - 1) : batch[w][k].id < batch[w][k + 1].id
       /\ \A k \in 1..Len(batch[w]) : \A j \in 1..Len(stream) :
            batch[w][k].id < stream[j].id

C19_ProcessStepInOrder ==
  \A w \in Workers :
    ProcessStep(w)
      => /\ \A j \in processed : j < CurrentEntry(w).id
         /\ processed' = processed \cup {CurrentEntry(w).id}
         /\ \A v \in Workers : pc[v] = "ack" => v = w

C19_AppendOrderProcessing ==
  []C19_WaitingInAppendOrder /\ [][C19_ProcessStepInOrder]_vars

\* C19 witness: entry 3 was processed after entry 1 in a later read batch
\* (entry 2 was delivered with entry 1 and left behind by a failed xack).
C19_Witness ==
  \E w \in Workers :
    /\ pc[w] = "ack"
    /\ CurrentEntry(w).id = 3
    /\ processed = {1, 3}
    /\ deliveries[2] = 1 /\ 2 \in pending

\* C20: with two workers reading the group with cursor ">", every appended
\* entry is either still waiting in the log, delivered to nobody, or was
\* delivered exactly once, to one worker; a read hands its worker entries
\* that nobody got before and leaves every other waiting entry in the log.
EntryIdsOf(entries) == { entries[k].id : k \in 1..Len(entries) }

C20_DeliveredOnce ==
  /\ \A i \in EntryIds :
       i < next_id
         => IF i \in EntryIdsOf(stream) THEN deliveries[i] = 0 ELSE deliveries[i] = 1
  /\ \A w \in GroupWorkers : \A v \in GroupWorkers \ {w} :
       EntryIdsOf(batch[w]) \cap EntryIdsOf(batch[v]) = {}

C20_ReadStep ==
  \A w \in GroupWorkers :
    (pc[w] = "read" /\ pc'[w] = "process")
      => /\ batch'[w] # <<>>
         /\ \A i \in EntryIdsOf(batch'[w]) : deliveries[i] = 0 /\ deliveries'[i] = 1
         /\ EntryIdsOf(stream) = EntryIdsOf(batch'[w]) \cup EntryIdsOf(stream')
         /\ \A v \in GroupWorkers \ {w} : batch'[v] = batch[v]

C20_ExactlyOneWorker == []C20_DeliveredOnce /\ [][C20_ReadStep]_vars

\* C20 witness: worker1 holds entries 1 and 2, worker2 holds entry 3, and both
\* are about to process.
C20_Witness ==
  /\ pc["worker1"] = "process" /\ EntryIdsOf(batch["worker1"]) = {1, 2}
  /\ pc["worker2"] = "process" /\ EntryIdsOf(batch["worker2"]) = {3}
  /\ deliveries[1] = 1 /\ deliveries[2] = 1 /\ deliveries[3] = 1

\* C21 (as claimed): once stop() was called, the loop does not go back to
\* reading: when the worker is done with an entry it goes on with the batch
\* in hand or exits, and the entries it leaves behind stay pending.
C21_StopObserved ==
  [][ \A w \in Workers :
        (stop_calls > 0 /\ pc[w] = "ack" /\ pc'[w] # pc[w])
          => /\ pc'[w] \in {"process", "stopped"}
             /\ pc'[w] = "stopped" => pending' = pending ]_vars

\* C22: no failure while reading, processing or acknowledging an entry ends
\* the loop. The worker is always at a read, at process_event for the head of
\* a non-empty batch or at its xack, and the step it is at can be taken; from
\* process_event it goes to the xack however process_event ended, and from
\* the xack, failed or not, to the next entry of the batch or the next read.
C22_WorkerRunning ==
  \A w \in Workers :
    /\ pc[w] \in {"read", "process", "ack"}
    /\ pc[w] \in {"process", "ack"} => batch[w] # <<>>
    /\ pc[w] = "process" => ENABLED ProcessEvent(w)
    /\ pc[w] = "ack" => ENABLED Ack(w)
    /\ (pc[w] = "read" /\ stream # <<>>) => ENABLED Read(w)

C22_LoopStep ==
  \A w \in Workers :
    /\ (pc[w] = "process" /\ pc'[w] # "process") => pc'[w] = "ack"
    /\ (pc[w] = "ack" /\ pc'[w] # "ack")
         => \/ pc'[w] = "read" /\ batch'[w] = <<>>
            \/ pc'[w] = "process" /\ batch'[w] = Tail(batch[w]) /\ batch'[w] # <<>>
    /\ (pc[w] = "read" /\ result[w] # "read_error" /\ result'[w] = "read_error")
         => pc'[w] = "read" /\ stream' = stream

C22_LoopSurvivesFailures == []C22_WorkerRunning /\ [][C22_LoopStep]_vars

\* C22 witness: the xack of entry 1 failed, then a read failed, and the worker
\* has read entry 2 and is about to process it.
C22_Witness ==
  \E w \in Workers :
    /\ pc[w] = "process"
    /\ result[w] = "read_error"
    /\ CurrentEntry(w).id = 2
    /\ 1 \in processed /\ ack_count[1] = 0 /\ 1 \in pending

\* C23: an event posted with an empty name, with empty event_properties or
\* with a user_id that is missing, empty or not a string is answered with
\* status 400 and appends nothing; no entry of the log carries such an event
\* and no aggregate is stored under an id that is not a valid user id.
C23_BadEvent(event) ==
  \/ event.name = ""
  \/ DOMAIN event.event_properties = {}
  \/ "user_id" \notin DOMAIN event.event_properties
  \/ event.event_properties["user_id"] \notin UserIds

C23_RejectStep ==
  ( /\ response' # response
    /\ response'.endpoint = "/event"
    /\ C23_BadEvent(response'.request.event) )
  => /\ response'.status = 400
     /\ UNCHANGED <<stream, next_id, pending, users_db, tripwire_states, affected_users>>

C23_NothingBadStored ==
  /\ \A k \in 1..Len(stream) :
       stream[k].fields # InitFields => ~C23_BadEvent(EventOf(stream[k].fields))
  /\ \A w \in Workers : \A k \in 1..Len(batch[w]) :
       batch[w][k].fields # InitFields => ~C23_BadEvent(EventOf(batch[w][k].fields))
  /\ DOMAIN users_db \subseteq UserIds

C24_UnknownNameRejected ==
  [][ ( /\ response'.endpoint = "/event"
        /\ response'.request.event.name \notin HandledEventNames
        /\ (response' # response \/ posts' # posts) )
      => /\ response'.status # 200
         /\ stream' = stream ]_vars

\* C25: a POST /event answered with 200 appends exactly one entry, holding
\* the event's name and its event_properties serialized as JSON, and changes
\* no user aggregate and no tripwire state; the user database changes only in
\* a step in which the consumer processes an entry.
C25_PostStep ==
  /\ posts' = posts + 1
       => /\ response'.endpoint = "/event"
          /\ response'.status = 200
          /\ stream' =
               Append(stream,
                      [ id |-> next_id,
                        fields |->
                          [ name |-> response'.request.event.name,
                            event_properties |->
                              json_dumps(response'.request.event.event_properties) ] ])
          /\ UNCHANGED <<users_db, tripwire_states, affected_users, pending>>
  /\ (response'.endpoint = "/event" /\ response'.status = 200 /\ response' # response)
       => posts' = posts + 1
  /\ users_db' # users_db => \E w \in Workers : ProcessStep(w)

C26_AccessAnswer ==
  [][ ( /\ response' # response
        /\ response'.endpoint \in {"/canmessage", "/canpurchase"}
        /\ response'.status # 500 )
      => LET uid == response'.request.user_id
             key == IF response'.endpoint = "/canmessage" THEN "can_message"
                    ELSE "can_purchase"
         IN IF uid \in DOMAIN users_db
              THEN /\ response'.status = 200
                   /\ response'.body =
                        [k \in {key} |->
                           IF users_db[uid].access_flags[key] THEN "true" ELSE "false"]
              ELSE response'.status = 404 ]_vars

\* C27: when the consumer processes an event whose user has no stored
\* aggregate and no backing-store call fails, the user is stored afterwards:
\* as the default aggregate (all counters zero, no cards, both flags true)
\* when the handler refused the event, and otherwise as what the handler of
\* the event makes of the default aggregate, with the flag of a rule that
\* fired set to false.
C27_Default(u) ==
  [ user_id |-> u,
    scam_message_flags |-> 0,
    credit_cards |-> [c \in {} |-> NoVal],
    total_credit_cards |-> 0,
    unique_zip_codes |-> {},
    total_spend |-> 0,
    total_chargebacks |-> 0,
    access_flags |-> [can_message |-> TRUE, can_purchase |-> TRUE] ]

C27_NewUserStep ==
  \A w \in Workers :
    ( /\ ProcessStep(w)
      /\ HeadReadable(w)
      /\ HeadUser(w) \notin DOMAIN users_db
      /\ result'[w] # "transient" )
    => /\ HeadUser(w) \in DOMAIN users_db'
       /\ result'[w] \in {"ok", "tripwire_call_error", "bad_properties"}
       /\ result'[w] = "bad_properties" => users_db'[HeadUser(w)] = C27_Default(HeadUser(w))
       /\ result'[w] # "bad_properties"
            => LET after == users_db'[HeadUser(w)]
                   handled == IF HasHandler(HeadEvent(w).name)
                                THEN handle(HeadEvent(w), C27_Default(HeadUser(w)))
                                ELSE C27_Default(HeadUser(w))
               IN /\ [after EXCEPT !.access_flags = handled.access_flags] = handled
                  /\ \A f \in FlagNames :
                       after.access_flags[f]
                         <=> ~( /\ HeadHasRule(w)
                                /\ f = RuleFlag(HeadRule(w))
                                /\ RuleApplies(tripwire_states, HeadRule(w), handled) )

C27_UnknownUserCreated == [][C27_NewUserStep]_vars

\* C27 witness: the first event of u2, a scam report, was processed: u2 is
\* stored with one flag and both access flags true.
C27_Witness ==
  \E w \in Workers :
    /\ pc[w] = "ack"
    /\ result[w] = "ok"
    /\ processed = {1, 2}
    /\ CurrentEntry(w).id = 2
    /\ HeadEvent(w) = PlainEvent("scam_message_flagged", "u2")
    /\ DOMAIN users_db = {"u2"}
    /\ users_db["u2"] = [C27_Default("u2") EXCEPT !.scam_message_flags = 1]

\* C28: with two workers, each worker saves the whole user object it read
\* before, whatever the store holds by then: after its save the stored
\* aggregate is what the handler makes of the worker's own copy (with the
\* flag of a fired rule false). So an update saved in between by the other
\* worker is lost.
C28_SaveStep ==
  \A w \in GroupWorkers :
    ( /\ pc[w] = "loaded" /\ pc'[w] = "ack"
      /\ HasHandler(HeadEvent(w).name)
      /\ result'[w] \in {"ok", "tripwire_call_error"} )
    => LET handled == handle(HeadEvent(w), local[w])
           after == users_db'[HeadUser(w)]
       IN /\ [after EXCEPT !.access_flags = handled.access_flags] = handled
          /\ HeadEvent(w).name = "scam_message_flagged"
               => after.scam_message_flags = local[w].scam_message_flags + 1

C28_WholeObjectSaved == [][C28_SaveStep]_vars

\* C28 witness (the lost update): both workers have processed a
\* scam_message_flagged entry of u1, entries 2 and 3, and u1 is stored with
\* one flag.
C28_Witness ==
  /\ pc["worker1"] = "ack" /\ pc["worker2"] = "ack"
  /\ CurrentEntry("worker1").id = 2 /\ CurrentEntry("worker2").id = 3
  /\ HeadEvent("worker1") = PlainEvent("scam_message_flagged", "u1")
  /\ HeadEvent("worker2") = PlainEvent("scam_message_flagged", "u1")
  /\ processed = {1, 2, 3}
  /\ users_db["u1"].scam_message_flags = 1

\* C29: scam_message_flagged, chargeback_occurred and purchase_made count
\* every time they are processed: from any store the consumer can reach,
\* processing such an entry once more adds to its counter once more (one
\* more flag, the amount once more), so an entry processed twice is counted
\* twice.
C29_Counted(db, u) == IF u \in DOMAIN db THEN db[u] ELSE UserData(u)

C29_CountsAgainOn(db, states) ==
  \A u \in UserIds :
    /\ LET e == PlainEvent("scam_message_flagged", u)
           once == Processed(db, states, e)
       IN /\ once[u].scam_message_flags = C29_Counted(db, u).scam_message_flags + 1
          /\ Processed(once, states, e)[u].scam_message_flags
               = C29_Counted(db, u).scam_message_flags + 2
    /\ \A a \in ChargebackAmounts :
         LET e == AmountEvent("chargeback_occurred", u, a)
             once == Processed(db, states, e)
         IN /\ once[u].total_chargebacks = C29_Counted(db, u).total_chargebacks + a
            /\ Processed(once, states, e)[u].total_chargebacks
                 = C29_Counted(db, u).total_chargebacks + 2 * a
    /\ \A a \in PurchaseAmounts :
         LET e == AmountEvent("purchase_made", u, a)
             once == Processed(db, states, e)
         IN /\ once[u].total_spend = C29_Counted(db, u).total_spend + a
            /\ Processed(once, states, e)[u].total_spend
                 = C29_Counted(db, u).total_spend + 2 * a

C30_GroupBeforeReading ==
  \A w \in GroupWorkers :
    /\ pc[w] \in {"init", "read", "process", "ack", "aborted"}
    /\ pc[w] \in {"read", "process", "ack"} => group_exists
    /\ pc[w] \in {"init", "aborted"} => batch[w] = <<>>

C30_StartupStep ==
  \A w \in GroupWorkers :
    /\ (pc[w] = "init" /\ pc'[w] # "init")
         => /\ result'[w] \in {"group_created", "busygroup", "group_error"}
            /\ result'[w] = "busygroup" <=> (group_exists /\ pc'[w] = "read")
            /\ result'[w] = "busygroup"
                 => UNCHANGED <<group_exists, stream, pending, deliveries, batch>>
            /\ result'[w] = "group_created"
                 => ~group_exists /\ group_exists' /\ pc'[w] = "read"
            /\ result'[w] = "group_error"
                 => pc'[w] = "aborted" /\ UNCHANGED <<group_exists, pending, deliveries>>
    /\ pc[w] = "aborted" => pc'[w] = "aborted" /\ batch'[w] = <<>>

C30_GroupEnsured == []C30_GroupBeforeReading /\ [][C30_StartupStep]_vars

\* C30 witness: worker1 created the group and holds a delivered entry;
\* worker2 then found the group existing and has read the entry appended
\* after that delivery.
C30_Witness ==
  /\ pc["worker1"] \in {"process", "ack"}
  /\ EntryIdsOf(batch["worker1"]) = {1}
  /\ result["worker2"] = "busygroup"
  /\ pc["worker2"] = "process"
  /\ EntryIdsOf(batch["worker2"]) = {2}
  /\ pending = {1, 2}

\* C31: processing an event runs only the rule registered for its name
\* (credit_card_added: unique_zip_code_rule, scam_message_flagged:
\* scam_message_rule, chargeback_occurred: chargeback_ratio_rule,
\* purchase_made and any other name: none). An access flag changes in a
\* processing step only for the event's user, only to false, and only the
\* flag of that rule with that rule's predicate true of the aggregate; a
\* purchase_made event that is processed to its end changes only total_spend,
\* and no processing step for it changes a flag or the tripwire state.
C31_RulesOf(name) ==
  IF name = "credit_card_added" THEN {"unique_zip_code_rule"}
  ELSE IF name = "scam_message_flagged" THEN {"scam_message_rule"}
  ELSE IF name = "chargeback_occurred" THEN {"chargeback_ratio_rule"}
  ELSE {}

C31_MappedRuleStep ==
  \A w \in Workers :
    (ProcessStep(w) /\ HeadReadable(w))
      => /\ \A u \in DOMAIN users_db : \A f \in FlagNames :
              users_db'[u].access_flags[f] # users_db[u].access_flags[f]
                => /\ u = HeadUser(w)
                   /\ ~users_db'[u].access_flags[f]
                   /\ \E r \in C31_RulesOf(HeadEvent(w).name) :
                        /\ f = (IF r = "scam_message_rule" THEN "can_message"
                                ELSE "can_purchase")
                        /\ evaluate_rule(r, users_db'[u])
                        /\ ~is_rule_disabled_via_tripwire(tripwire_states, r)
         /\ HeadEvent(w).name = "purchase_made"
              => /\ UNCHANGED <<tripwire_states, affected_users>>
                 /\ HeadUser(w) \in DOMAIN users_db'
                      => users_db'[HeadUser(w)].access_flags = HeadBefore(w).access_flags
                 /\ result'[w] # "tripwire_call_error"
                 /\ result'[w] = "ok"
                      => users_db'[HeadUser(w)] =
                           [ HeadBefore(w) EXCEPT
                               !.total_spend =
                                 @ + HeadEvent(w).event_properties["amount"] ]

C31_OnlyMappedRules == [][C31_MappedRuleStep]_vars

\* C31 witness: a purchase was processed for a user whose chargebacks now
\* exceed a tenth of the spend; can_purchase is still true.
C31_Witness ==
  \E w \in Workers :
    /\ pc[w] = "ack"
    /\ result[w] = "ok"
    /\ HeadReadable(w)
    /\ HeadEvent(w) = AmountEvent("purchase_made", "u1", 10)
    /\ users_db["u1"].total_spend = 10
    /\ users_db["u1"].total_chargebacks = 2
    /\ users_db["u1"].access_flags["can_purchase"]

\* C32: a rule that fires changes only its own flag: scam_message_rule sets
\* can_message to false, unique_zip_code_rule and chargeback_ratio_rule set
\* can_purchase to false, and the other flag, the counters, the card mapping
\* and the zip set of the user stay as they were.
C32_TargetFlag(rule_name) ==
  CASE rule_name = "scam_message_rule" -> "can_message"
    [] rule_name = "unique_zip_code_rule" -> "can_purchase"
    [] rule_name = "chargeback_ratio_rule" -> "can_purchase"

C32_ApplyStep ==
  (rule_call' # rule_call /\ rule_call'.returned = "True")
    => LET before == users_db["u1"]
           after == users_db'["u1"]
           flag == C32_TargetFlag(rule_call'.rule)
       IN /\ ~after.access_flags[flag]
          /\ \A f \in FlagNames \ {flag} : after.access_flags[f] = before.access_flags[f]
          /\ after.scam_message_flags = before.scam_message_flags
          /\ after.credit_cards = before.credit_cards
          /\ after.total_credit_cards = before.total_credit_cards
          /\ after.unique_zip_codes = before.unique_zip_codes
          /\ after.total_spend = before.total_spend
          /\ after.total_chargebacks = before.total_chargebacks
          /\ DOMAIN users_db' = DOMAIN users_db

C32_RuleChangesOnlyItsFlag == [][C32_ApplyStep]_vars

\* C32 witness: after two scam reports scam_message_rule fired for the user:
\* can_message is false, can_purchase is still true, the count is still 2.
C32_Witness ==
  /\ rule_call = [rule |-> "scam_message_rule", returned |-> "True", saves |-> 1]
  /\ users_db["u1"].scam_message_flags = 2
  /\ ~users_db["u1"].access_flags["can_message"]
  /\ users_db["u1"].access_flags["can_purchase"]
  /\ users_db["u1"].total_credit_cards = 0
  /\ users_db["u1"].total_spend = 0

\* C33: when the backing store fails while the users are counted,
\* get_user_count returns 0 (a call that does not fail returns the number of
\* stored aggregates); apply_tripwire_if_needed performed with that 0 records
\* the user, takes the percentage as 0 and leaves the rule's state "0",
\* however many users the rule's affected hash holds.
C33_CountStep ==
  (count_call' # count_call \/ tripVars' # tripVars) =>
    /\ count_call'.returned =
         (IF count_call'.raised THEN 0 ELSE Cardinality(DOMAIN users_db))
    /\ count_call'.raised =>
         \A r \in DOMAIN affected_users :
           ( \/ affected_users'[r] # affected_users[r]
             \/ r \in DOMAIN last_apply' \ DOMAIN last_apply
             \/ (r \in DOMAIN last_apply /\ last_apply'[r] # last_apply[r]) ) =>
             /\ r \in DOMAIN last_apply'
             /\ last_apply'[r].total_users = 0
             /\ ~is_rule_disabled_via_tripwire(tripwire_states', r)

C34_RunawayStep ==
  \A w \in Workers :
    ( /\ ProcessStep(w)
      /\ HeadHasRule(w)
      /\ result'[w] \in {"ok", "tripwire_call_error"}
      /\ Cardinality(DOMAIN users_db') <= 20
      /\ RuleApplies(tripwire_states, HeadRule(w), users_db'[HeadUser(w)]) )
    => /\ is_rule_disabled_via_tripwire(tripwire_states', HeadRule(w))
       /\ \A u \in DOMAIN users_db' \ {HeadUser(w)} :
            users_db'[u].access_flags[RuleFlag(HeadRule(w))]

C34_RunawayBound == [][C34_RunawayStep]_vars

\* C35: in the pipeline every user in the affected-users hash of a rule has
\* a stored aggregate, and every application of a rule by the consumer
\* records the user in the rule's hash with a total_users that is at least 1
\* and at least the number of users in the hash.
C35_AffectedAreStored ==
  \A r \in DOMAIN affected_users :
    \A u \in DOMAIN affected_users[r] : UserExists(users_db, u)

C35_RecordStep ==
  \A w \in Workers :
    ( /\ ProcessStep(w)
      /\ HeadHasRule(w)
      /\ result'[w] \in {"ok", "tripwire_call_error"}
      /\ RuleApplies(tripwire_states, HeadRule(w), users_db'[HeadUser(w)]) )
    => /\ HeadUser(w) \in DOMAIN affected_users'[HeadRule(w)]
       /\ HeadRule(w) \in DOMAIN last_apply'
       /\ last_apply'[HeadRule(w)].total_users >= 1
       /\ last_apply'[HeadRule(w)].affected_count
            <= last_apply'[HeadRule(w)].total_users

C35_ConsumerCountsStoredUsers ==
  []C35_AffectedAreStored /\ [][C35_RecordStep]_vars

\* C36: while a rule is enabled, an associated event of a user whose
\* predicate holds and whose target flag is already false applies the rule
\* again and records the user in the rule's affected-users hash again: the
\* user's timestamp becomes the current time and a user already in the hash
\* is not counted a second time.
C36_ReapplyStep ==
  \A w \in Workers :
    ( /\ ProcessStep(w)
      /\ HeadHasRule(w)
      /\ result'[w] \in {"ok", "tripwire_call_error"}
      /\ UserExists(users_db, HeadUser(w))
      /\ ~users_db[HeadUser(w)].access_flags[RuleFlag(HeadRule(w))]
      /\ RuleApplies(tripwire_states, HeadRule(w), users_db'[HeadUser(w)]) )
    => /\ ~users_db'[HeadUser(w)].access_flags[RuleFlag(HeadRule(w))]
       /\ HeadUser(w) \in DOMAIN affected_users'[HeadRule(w)]
       /\ affected_users'[HeadRule(w)][HeadUser(w)] = now
       /\ HeadUser(w) \in DOMAIN affected_users[HeadRule(w)] =>
            Cardinality(DOMAIN affected_users'[HeadRule(w)])
              <= Cardinality(DOMAIN affected_users[HeadRule(w)])

C36_ReapplyRefreshesRecord == [][C36_ReapplyStep]_vars

\* C37: an entry the consumer drops (no handler is registered for its event
\* name, a property its handler requires is missing, or it holds no event
\* with a user_id) changes no stored aggregate and no tripwire state; the
\* only change it can make is a default aggregate stored for its user_id when
\* none was stored, which raises the user count by one.
C37_Dropped(w) ==
  \/ ~HeadReadable(w)
  \/ ~HasHandler(HeadEvent(w).name)
  \/ HandlerRaisesValueError(HeadEvent(w))

C37_DropStep ==
  \A w \in Workers :
    (ProcessStep(w) /\ C37_Dropped(w))
    => /\ UNCHANGED tripVars
       /\ \A u \in DOMAIN users_db :
            u \in DOMAIN users_db' /\ users_db'[u] = users_db[u]
       /\ IF HeadReadable(w)
            THEN /\ DOMAIN users_db' \subseteq DOMAIN users_db \cup {HeadUser(w)}
                 /\ \A u \in DOMAIN users_db' \ DOMAIN users_db :
                      /\ users_db'[u] = UserData(u)
                      /\ get_user_count(users_db', FALSE)
                           = get_user_count(users_db, FALSE) + 1
                 /\ result'[w] \in {"ok", "bad_properties", "transient"}
                 /\ result'[w] = "ok" => ~HasHandler(HeadEvent(w).name)
            ELSE users_db' = users_db /\ result'[w] = "bad_entry"

C37_DroppedEntryOnlyCreates == [][C37_DropStep]_vars

\* C37 witness: the first event processed was a chargeback_occurred of u1
\* without amount: its handler raised, and the only trace of the entry is the
\* default aggregate created for u1.
C37_Witness ==
  \E w \in Workers :
    /\ pc[w] = "ack"
    /\ result[w] = "bad_properties"
    /\ HeadReadable(w)
    /\ HeadEvent(w) = PlainEvent("chargeback_occurred", "u1")
    /\ DOMAIN users_db = {"u1"}
    /\ users_db["u1"] = UserData("u1")
    /\ processed = {1, 2}

\* C38: the queries are read-only. A step that answers GET /canmessage or
\* GET /canpurchase leaves the user database (every aggregate, and the
\* number of them) and the tripwire as they were; the user database changes
\* only in a processing step of the consumer.
C38_QueryEndpoints == {"/canmessage", "/canpurchase"}

C38_QueryStep ==
  /\ (response' # response /\ response'.endpoint \in C38_QueryEndpoints) =>
       /\ UNCHANGED <<users_db, tripVars>>
       /\ get_user_count(users_db', FALSE) = get_user_count(users_db, FALSE)
  /\ (users_db' # users_db \/ tripVars' # tripVars) =>
       \E w \in Workers : ProcessStep(w)

C38_QueriesReadOnly == [][C38_QueryStep]_vars

\* C38 witness: with u1 stored, GET /canmessage for the unknown u2 was
\* answered with the error body, and u1 is still the only user stored.
C38_Witness ==
  /\ response.endpoint = "/canmessage"
  /\ response.request = [user_id |-> "u2"]
  /\ response.status = 200
  /\ "error" \in DOMAIN response.body
  /\ DOMAIN users_db = {"u1"}

\* C39: with two workers of one group on one user, the access flags a worker
\* stores are those of its own copy of the user (false for the flag of the
\* rule that fires on that copy), whatever the store holds by then; a stored
\* flag goes from false back to true only by such a save of a copy that was
\* read while the flag was still true.
C39_SaveStep ==
  \A w \in GroupWorkers :
    ( /\ pc[w] = "loaded" /\ pc'[w] = "ack"
      /\ HasHandler(HeadEvent(w).name)
      /\ result'[w] \in {"ok", "tripwire_call_error"} )
    => LET handled == handle(HeadEvent(w), local[w])
           fires == /\ HeadHasRule(w)
                    /\ RuleApplies(tripwire_states, HeadRule(w), handled)
       IN \A f \in FlagNames :
            users_db'[HeadUser(w)].access_flags[f] =
              IF fires /\ f = RuleFlag(HeadRule(w)) THEN FALSE
              ELSE local[w].access_flags[f]

C39_ResurrectionStep ==
  \A u \in DOMAIN users_db : \A f \in FlagNames :
    (~users_db[u].access_flags[f] /\ u \in DOMAIN users_db'
       /\ users_db'[u].access_flags[f])
    => \E w \in GroupWorkers :
         /\ pc[w] = "loaded" /\ pc'[w] = "ack"
         /\ HeadUser(w) = u
         /\ local[w].access_flags[f]

C39_StaleSaveResurrectsFlag == [][C39_SaveStep /\ C39_ResurrectionStep]_vars

\* C39 witness: worker2 processed the third scam report of u1 (entry 4), its
\* rule fired and it stored can_message = false; worker2 has not moved since,
\* and worker1, which had read u1 before any report was counted, has saved
\* its copy for entry 2: can_message of u1 is stored as true again.
C39_Witness ==
  /\ pc["worker1"] = "ack" /\ pc["worker2"] = "ack"
  /\ CurrentEntry("worker1").id = 2 /\ CurrentEntry("worker2").id = 4
  /\ HeadEvent("worker1") = PlainEvent("scam_message_flagged", "u1")
  /\ HeadEvent("worker2") = PlainEvent("scam_message_flagged", "u1")
  /\ result["worker2"] = "tripwire_call_error"
  /\ result["worker1"] = "ok"
  /\ users_db["u1"].access_flags["can_message"]
  /\ users_db["u1"].scam_message_flags = 1

\* C40: apply_tripwire_if_needed for a rule changes only that rule's
\* affected-users hash and that rule's state: a step that touches the
\* tripwire touches it for one rule, leaves the hash and the state of every
\* other rule (and so whether process_rule finds it disabled) and every user
\* aggregate as they were.
C40_Touched ==
  { r \in RuleNames :
      \/ affected_users'[r] # affected_users[r]
      \/ (r \in DOMAIN tripwire_states') # (r \in DOMAIN tripwire_states)
      \/ (r \in DOMAIN tripwire_states /\ r \in DOMAIN tripwire_states'
            /\ tripwire_states'[r] # tripwire_states[r])
      \/ is_rule_disabled_via_tripwire(tripwire_states', r)
           # is_rule_disabled_via_tripwire(tripwire_states, r) }

C40_ApplyStep ==
  tripVars' # tripVars =>
    /\ Cardinality(C40_Touched) <= 1
    /\ DOMAIN tripwire_states' \subseteq RuleNames
    /\ users_db' = users_db

C40_OnlyOwnRuleChanges == [][C40_ApplyStep]_vars

\* C40 witness: scam_message_rule was disabled for u1 at time 0; at
\* time 150 chargeback_ratio_rule was recomputed for u1 with a failed count
\* and is enabled, and scam_message_rule is still disabled with its hash as
\* it was.
C40_Witness ==
  /\ now = 150
  /\ Cardinality(DOMAIN users_db) = 5
  /\ is_rule_disabled_via_tripwire(tripwire_states, "scam_message_rule")
  /\ DOMAIN affected_users["scam_message_rule"] = {"u1"}
  /\ affected_users["scam_message_rule"]["u1"] = 0
  /\ "chargeback_ratio_rule" \in DOMAIN tripwire_states
  /\ tripwire_states["chargeback_ratio_rule"] = "0"
  /\ DOMAIN affected_users["chargeback_ratio_rule"] = {"u1"}
  /\ affected_users["chargeback_ratio_rule"]["u1"] = 150

====
